---- MODULE Spec2Model ----
(***************************************************************************)
(* A model of the maskeraid sanitization engine (src/shared/sanitizer.ts): *)
(* sanitize, applyRule, escapeRegExp and testPattern, together with the    *)
(* parts of the JavaScript runtime they rely on (RegExp compilation,       *)
(* RegExp.prototype.exec, String.prototype.replace, toLowerCase, indexOf). *)
(*                                                                         *)
(* Strings are sequences of one-character strings.  A regular expression   *)
(* is kept as its source text and compiled by ParseRegExp each time the    *)
(* code calls new RegExp(...), so that escaping and re-compiling a matched    *)
(* value is a conversion the model really performs.                        *)
(***************************************************************************)
EXTENDS Integers, Sequences, FiniteSets, TLC

(***************************************************************************)
(* Characters                                                              *)
(***************************************************************************)

\* The characters the model knows, in ASCII order (used for a-z ranges).
Ascii ==
  << " ", "$", "&", "'", "(", ")", "*", "+", "-", ".",
     "0", "1", "2", "3", "4", "5", "6", "7", "8", "9",
     "?", "@",
     "A", "B", "C", "D", "E", "F", "G", "H", "I", "J", "K", "L", "M",
     "N", "O", "P", "Q", "R", "S", "T", "U", "V", "W", "X", "Y", "Z",
     "[", "\\", "]", "^", "_",
     "a", "b", "c", "d", "e", "f", "g", "h", "i", "j", "k", "l", "m",
     "n", "o", "p", "q", "r", "s", "t", "u", "v", "w", "x", "y", "z",
     "{", "|", "}" >>

Code(c) == CHOOSE k \in 1..Len(Ascii) : Ascii[k] = c

Uppers ==
  << "A", "B", "C", "D", "E", "F", "G", "H", "I", "J", "K", "L", "M",
     "N", "O", "P", "Q", "R", "S", "T", "U", "V", "W", "X", "Y", "Z" >>

Lowers ==
  << "a", "b", "c", "d", "e", "f", "g", "h", "i", "j", "k", "l", "m",
     "n", "o", "p", "q", "r", "s", "t", "u", "v", "w", "x", "y", "z" >>

Digits == << "0", "1", "2", "3", "4", "5", "6", "7", "8", "9" >>

SeqRange(q) == { q[k] : k \in 1..Len(q) }

\* String.prototype.toLowerCase on one character.
LowerChar(c) ==
  IF \E k \in 1..Len(Uppers) : Uppers[k] = c
  THEN Lowers[CHOOSE k \in 1..Len(Uppers) : Uppers[k] = c]
  ELSE c

\* String.prototype.toLowerCase.
ToLowerCase(s) == [k \in 1..Len(s) |-> LowerChar(s[k])]

\* Two characters are the same to a matcher (Canonicalize under the i flag).
SameChar(c, d, ic) == IF ic THEN LowerChar(c) = LowerChar(d) ELSE c = d

WordChars == SeqRange(Uppers) \cup SeqRange(Lowers) \cup SeqRange(Digits) \cup {"_"}

\* s.substring(from, to) with 0-based offsets, from <= to.
Substring(s, from, to) ==
  LET lo == IF from > Len(s) THEN Len(s) ELSE from
      hi == IF to > Len(s) THEN Len(s) ELSE to
  IN  SubSeq(s, lo + 1, hi)

\* Number to decimal string, as a template literal formats index + 1.
RECURSIVE NatToString(_)
NatToString(n) ==
  IF n < 10 THEN << Digits[n + 1] >>
  ELSE NatToString(n \div 10) \o << Digits[(n % 10) + 1] >>

(***************************************************************************)
(* new RegExp(pattern, flags): compilation                                 *)
(*                                                                         *)
(* The supported pattern syntax is the part of the JavaScript syntax that  *)
(* the rules of the model use: alternation, grouping, the greedy           *)
(* quantifiers * + ?, character classes with ranges and negation, the      *)
(* escapes \d \w \b, identity escapes of every other character, the        *)
(* assertions ^ and $, and the dot.  A syntax error is reported as         *)
(* ok = FALSE, which is the SyntaxError new RegExp throws.                 *)
(***************************************************************************)

ParseFail == [ok |-> FALSE]

DigitSet == SeqRange(Digits)

\* The set a class escape or a single class character stands for.
ClassAtomSet(c, escaped) ==
  IF escaped /\ c = "d" THEN DigitSet
  ELSE IF escaped /\ c = "w" THEN WordChars
  ELSE {c}

\* The characters from lo to hi in code order (a range lo-hi of a class).
CharRange(lo, hi) == { Ascii[k] : k \in Code(lo)..Code(hi) }

\* p[i] p[i+1] p[i+2] is a range such as a-z.
IsRangeAt(p, i) ==
  /\ i + 2 <= Len(p)
  /\ p[i + 1] = "-"
  /\ p[i + 2] \notin {"]", "\\"}

\* The items of a character class, from position i up to the closing "]".
RECURSIVE ParseClassItems(_, _, _)
ParseClassItems(p, i, acc) ==
  IF i > Len(p) THEN ParseFail                    \* unterminated class
  ELSE IF p[i] = "]" THEN [ok |-> TRUE, set |-> acc, pos |-> i + 1]
  ELSE IF p[i] = "\\"
    THEN IF i + 1 > Len(p) THEN ParseFail
         ELSE ParseClassItems(p, i + 2, acc \cup ClassAtomSet(p[i + 1], TRUE))
  ELSE IF IsRangeAt(p, i)
    THEN IF Code(p[i]) > Code(p[i + 2]) THEN ParseFail     \* range out of order
         ELSE ParseClassItems(p, i + 3, acc \cup CharRange(p[i], p[i + 2]))
  ELSE ParseClassItems(p, i + 1, acc \cup {p[i]})

ClassNode(items, neg) ==
  IF ~items.ok THEN ParseFail
  ELSE [ok |-> TRUE, pos |-> items.pos,
        ast |-> [t |-> "set", s |-> items.set, neg |-> neg]]

\* A character class; i is the position after the opening "[".
ParseClass(p, i) ==
  IF i <= Len(p) /\ p[i] = "^"
  THEN ClassNode(ParseClassItems(p, i + 1, {}), TRUE)
  ELSE ClassNode(ParseClassItems(p, i, {}), FALSE)

RECURSIVE ParseDisjunction(_, _)
RECURSIVE ParseAlternative(_, _)

Parsed(ast, pos) == [ok |-> TRUE, ast |-> ast, pos |-> pos]

\* After "(": a group may start with "?:" (non-capturing).
GroupBodyStart(p, i) ==
  IF i + 2 <= Len(p) /\ p[i + 1] = "?" /\ p[i + 2] = ":" THEN i + 3 ELSE i + 1

\* A group whose body parsed as d: the ")" must follow.
GroupAtom(p, d) ==
  IF ~d.ok THEN ParseFail
  ELSE IF d.pos > Len(p) \/ p[d.pos] # ")" THEN ParseFail      \* unterminated group
  ELSE Parsed(d.ast, d.pos + 1)

\* An escape; i is the position of the backslash.
EscapeAtom(p, i) ==
  IF i + 1 > Len(p) THEN ParseFail                             \* \ at end of pattern
  ELSE IF p[i + 1] = "b" THEN Parsed([t |-> "wordb"], i + 2)
  ELSE IF p[i + 1] \in {"d", "w"}
    THEN Parsed([t |-> "set", s |-> ClassAtomSet(p[i + 1], TRUE), neg |-> FALSE], i + 2)
  ELSE Parsed([t |-> "chr", c |-> p[i + 1]], i + 2)

\* Atom: one character, the dot, an escape, a class, a group or an assertion.
ParseAtom(p, i) ==
  IF p[i] \in {"*", "+", "?"} THEN ParseFail                   \* nothing to repeat
  ELSE IF p[i] = "." THEN Parsed([t |-> "any"], i + 1)
  ELSE IF p[i] = "^" THEN Parsed([t |-> "bol"], i + 1)
  ELSE IF p[i] = "$" THEN Parsed([t |-> "eol"], i + 1)
  ELSE IF p[i] = "[" THEN ParseClass(p, i + 1)
  ELSE IF p[i] = "\\" THEN EscapeAtom(p, i)
  ELSE IF p[i] = "(" THEN GroupAtom(p, ParseDisjunction(p, GroupBodyStart(p, i)))
  ELSE Parsed([t |-> "chr", c |-> p[i]], i + 1)

QuantifierNode(q, ast) ==
  [t |-> (IF q = "*" THEN "star" ELSE IF q = "+" THEN "plus" ELSE "opt"), a |-> ast]

\* The atom a followed by its optional quantifier.
Quantified(p, a) ==
  IF ~a.ok THEN ParseFail
  ELSE IF a.pos <= Len(p) /\ p[a.pos] \in {"*", "+", "?"}
    THEN IF a.ast.t \in {"wordb", "bol", "eol"} THEN ParseFail
         ELSE Parsed(QuantifierNode(p[a.pos], a.ast), a.pos + 1)
  ELSE a

\* Term: an atom and its optional quantifier.
ParseTerm(p, i) == Quantified(p, ParseAtom(p, i))

Joined(t, left, right) ==
  IF ~right.ok THEN ParseFail
  ELSE Parsed([t |-> t, a |-> left.ast, b |-> right.ast], right.pos)

\* The rest of an alternative after its first term.
AlternativeAfter(p, term) ==
  IF ~term.ok THEN ParseFail
  ELSE Joined("cat", term, ParseAlternative(p, term.pos))

\* Alternative: terms up to the end, a "|" or a ")".
ParseAlternative(p, i) ==
  IF i > Len(p) \/ p[i] \in {"|", ")"}
  THEN Parsed([t |-> "empty"], i)
  ELSE AlternativeAfter(p, ParseTerm(p, i))

\* The rest of a disjunction after its first alternative.
DisjunctionAfter(p, left) ==
  IF ~left.ok THEN ParseFail
  ELSE IF left.pos <= Len(p) /\ p[left.pos] = "|"
    THEN Joined("alt", left, ParseDisjunction(p, left.pos + 1))
  ELSE left

\* Disjunction: alternatives separated by "|".
ParseDisjunction(p, i) == DisjunctionAfter(p, ParseAlternative(p, i))

\* The flags new RegExp accepts: known letters, none repeated.
RegExpFlagChars == {"d", "g", "i", "m", "s", "u", "v", "y"}

ValidFlags(flags) ==
  /\ \A k \in 1..Len(flags) : flags[k] \in RegExpFlagChars
  /\ \A j, k \in 1..Len(flags) : j # k => flags[j] # flags[k]

Includes(flags, c) == \E k \in 1..Len(flags) : flags[k] = c

\* The regex object for a parsed pattern d.
Compiled(pattern, flags, d) ==
  IF ~ValidFlags(flags) THEN ParseFail                        \* invalid flags
  ELSE IF ~d.ok THEN ParseFail
  ELSE IF d.pos <= Len(pattern) THEN ParseFail               \* unmatched ")"
  ELSE [ok |-> TRUE, ast |-> d.ast,
        global |-> Includes(flags, "g"),
        ignoreCase |-> Includes(flags, "i")]

\* new RegExp(pattern, flags): ok = FALSE stands for the thrown SyntaxError.
NewRegExp(pattern, flags) == Compiled(pattern, flags, ParseDisjunction(pattern, 1))

(***************************************************************************)
(* Matching: the backtracking matcher of the language specification.       *)
(* Ends(n, s, i, ic) is the list of offsets at which a match of node n     *)
(* that starts at offset i of s can end, in the order backtracking tries   *)
(* them; the first one is the match the engine reports.                    *)
(***************************************************************************)

IsWordAt(s, i) == i >= 1 /\ i <= Len(s) /\ s[i] \in WordChars

InClass(c, set, ic) == \E d \in set : SameChar(c, d, ic)

RECURSIVE Ends(_, _, _, _)
RECURSIVE EndsAfter(_, _, _, _, _)
RECURSIVE StarEnds(_, _, _, _)
RECURSIVE StarAfter(_, _, _, _, _, _)

\* The ends of node n started at each offset of es, in order.
EndsAfter(es, k, n, s, ic) ==
  IF k > Len(es) THEN << >>
  ELSE Ends(n, s, es[k], ic) \o EndsAfter(es, k + 1, n, s, ic)

\* The ends of n* continued from each offset of es; an iteration that
\* consumed nothing (es[k] = i) is rejected, as RepeatMatcher does.
StarAfter(es, k, n, s, i, ic) ==
  IF k > Len(es) THEN << >>
  ELSE (IF es[k] = i THEN << >> ELSE StarEnds(n, s, es[k], ic))
       \o StarAfter(es, k + 1, n, s, i, ic)

\* Greedy n*: one more iteration first, stopping here last.
StarEnds(n, s, i, ic) ==
  StarAfter(Ends(n, s, i, ic), 1, n, s, i, ic) \o << i >>

Ends(n, s, i, ic) ==
  CASE n.t = "empty" -> << i >>
    [] n.t = "chr" ->
         IF i < Len(s) /\ SameChar(s[i + 1], n.c, ic) THEN << i + 1 >> ELSE << >>
    [] n.t = "any" -> IF i < Len(s) THEN << i + 1 >> ELSE << >>
    [] n.t = "set" ->
         IF i < Len(s) /\ (InClass(s[i + 1], n.s, ic) # n.neg) THEN << i + 1 >> ELSE << >>
    [] n.t = "bol" -> IF i = 0 THEN << i >> ELSE << >>
    [] n.t = "eol" -> IF i = Len(s) THEN << i >> ELSE << >>
    [] n.t = "wordb" ->
         IF IsWordAt(s, i) # IsWordAt(s, i + 1) THEN << i >> ELSE << >>
    [] n.t = "cat" -> EndsAfter(Ends(n.a, s, i, ic), 1, n.b, s, ic)
    [] n.t = "alt" -> Ends(n.a, s, i, ic) \o Ends(n.b, s, i, ic)
    [] n.t = "star" -> StarEnds(n.a, s, i, ic)
    [] n.t = "plus" -> EndsAfter(Ends(n.a, s, i, ic), 1, [t |-> "star", a |-> n.a], s, ic)
    [] n.t = "opt" ->
         SelectSeq(Ends(n.a, s, i, ic), LAMBDA e : e # i) \o << i >>

\* The match that starts at offset from, if es (its possible ends) is not
\* empty; the search one offset further otherwise.
RECURSIVE FirstMatch(_, _, _, _)
FirstMatchAt(ast, s, from, ic, es) ==
  IF es # << >> THEN [found |-> TRUE, index |-> from, end |-> es[1]]
  ELSE FirstMatch(ast, s, from + 1, ic)

\* The first offset >= from at which the pattern matches, and where that
\* match ends (the loop of RegExpBuiltinExec over lastIndex).
FirstMatch(ast, s, from, ic) ==
  IF from > Len(s) THEN [found |-> FALSE]
  ELSE FirstMatchAt(ast, s, from, ic, Ends(ast, s, from, ic))

\* What exec returns and leaves in lastIndex, for the outcome m of the search.
ExecResult(re, s, lastIndex, m) ==
  IF m.found
  THEN [found |-> TRUE,
        match0 |-> Substring(s, m.index, m.end),
        lastIndex |-> IF re.global THEN m.end ELSE lastIndex]
  ELSE [found |-> FALSE, match0 |-> << >>,
        lastIndex |-> IF re.global THEN 0 ELSE lastIndex]

\* RegExp.prototype.exec(s) on a regex object whose lastIndex is lastIndex.
\* A regex without the g flag ignores lastIndex and never writes it on a
\* match; with g it resumes at lastIndex and stores the end of the match,
\* or 0 when there is none.
RegExpExec(re, s, lastIndex) ==
  ExecResult(re, s, lastIndex,
             FirstMatch(re.ast, s, IF re.global THEN lastIndex ELSE 0, re.ignoreCase))

(***************************************************************************)
(* String.prototype.replace and String.prototype.indexOf                   *)
(***************************************************************************)

\* GetSubstitution for a match without capture groups: in the replacement
\* text "$$" is a dollar sign, "$&" the matched text and "$'" the text after
\* the match; any other "$" stands for itself.
RECURSIVE GetSubstitution(_, _, _, _, _)
GetSubstitution(matched, str, position, replacement, k) ==
  IF k > Len(replacement) THEN << >>
  ELSE IF replacement[k] = "$" /\ k < Len(replacement) /\ replacement[k + 1] = "$"
    THEN << "$" >> \o GetSubstitution(matched, str, position, replacement, k + 2)
  ELSE IF replacement[k] = "$" /\ k < Len(replacement) /\ replacement[k + 1] = "&"
    THEN matched \o GetSubstitution(matched, str, position, replacement, k + 2)
  ELSE IF replacement[k] = "$" /\ k < Len(replacement) /\ replacement[k + 1] = "'"
    THEN Substring(str, position + Len(matched), Len(str))
         \o GetSubstitution(matched, str, position, replacement, k + 2)
  ELSE << replacement[k] >> \o GetSubstitution(matched, str, position, replacement, k + 1)

\* The loop of str.replace(re, replacement) for a regex with the g flag:
\* matches are found left to right from lastIndex, an empty match advances
\* lastIndex by one, and the text between matches is copied.
RECURSIVE ReplaceFrom(_, _, _, _, _)
ReplaceAt(str, re, replacement, nextSourcePosition, m) ==
  IF ~m.found THEN Substring(str, nextSourcePosition, Len(str))
  ELSE IF m.index >= nextSourcePosition
    THEN Substring(str, nextSourcePosition, m.index)
         \o GetSubstitution(Substring(str, m.index, m.end), str, m.index, replacement, 1)
         \o ReplaceFrom(str, re, replacement,
                        IF m.end = m.index THEN m.end + 1 ELSE m.end, m.end)
  ELSE ReplaceFrom(str, re, replacement,
                   IF m.end = m.index THEN m.end + 1 ELSE m.end, nextSourcePosition)

ReplaceFrom(str, re, replacement, lastIndex, nextSourcePosition) ==
  ReplaceAt(str, re, replacement, nextSourcePosition,
            FirstMatch(re.ast, str, lastIndex, re.ignoreCase))

\* str.replace(re, replacement), re compiled with the g flag.
StringReplace(str, re, replacement) == ReplaceFrom(str, re, replacement, 0, 0)

\* str.indexOf(searchString, position): the first offset >= position at
\* which searchString occurs, -1 when there is none.
RECURSIVE IndexOf(_, _, _)
IndexOf(str, searchString, position) ==
  IF position + Len(searchString) > Len(str)
  THEN IF searchString = << >> THEN Len(str) ELSE -1
  ELSE IF Substring(str, position, position + Len(searchString)) = searchString
    THEN position
  ELSE IndexOf(str, searchString, position + 1)

(***************************************************************************)
(* sanitizer.ts                                                            *)
(***************************************************************************)

\* The characters escapeRegExp prefixes with a backslash.
RegExpSpecialChars ==
  {".", "*", "+", "?", "^", "$", "{", "}", "(", ")", "|", "[", "]", "\\"}

\* escapeRegExp(string)
RECURSIVE escapeRegExpFrom(_, _)
escapeRegExpFrom(string, k) ==
  IF k > Len(string) THEN << >>
  ELSE (IF string[k] \in RegExpSpecialChars THEN << "\\", string[k] >> ELSE << string[k] >>)
       \o escapeRegExpFrom(string, k + 1)

\* An escapeRegExp that escapes nothing.
escapeRegExp_None(string) == string

escapeRegExp(string) == escapeRegExpFrom(string, 1)

\* [...new Set(matches)]: the distinct values in first-insertion order.
RECURSIVE DistinctFrom(_, _, _)
DistinctFrom(values, k, acc) ==
  IF k > Len(values) THEN acc
  ELSE DistinctFrom(values, k + 1,
         IF values[k] \in SeqRange(acc) THEN acc ELSE Append(acc, values[k]))

DistinctValues(values) == DistinctFrom(values, 1, << >>)

\* A numbering of the tokens that starts at 0.
IndexedReplacement_FromZero(replacement, index) ==
  replacement \o << "_" >> \o NatToString(index)

\* The token of the distinct value at 0-based position index.
IndexedReplacement(replacement, index) ==
  replacement \o << "_" >> \o NatToString(index + 1)

\* rule.flags || "g"
FlagsOrDefault(flags) == IF flags = << >> THEN << "g" >> ELSE flags

\* flags.includes("i") ? "gi" : "g"
ValueRegexFlags(flags) == IF Includes(flags, "i") THEN << "g", "i" >> ELSE << "g" >>

\* replacementMap[value] = indexedReplacement
MapPut(map, key, val) ==
  [x \in (DOMAIN map) \cup {key} |-> IF x = key THEN val ELSE map[x]]

EmptyMap == [x \in {} |-> << >>]

\* distinctValues.forEach((value, index) => ...): for each distinct value in
\* turn, record its token in the map and replace the value throughout the
\* text produced so far.  ok = FALSE stands for an exception thrown by
\* new RegExp inside the loop.
RECURSIVE ReplaceDistinct(_, _, _, _, _, _)
ReplaceValue(distinctValues, k, replacement, valueFlags, newText, replacementMap, valueRegex) ==
  IF ~valueRegex.ok THEN [ok |-> FALSE]
  ELSE ReplaceDistinct(distinctValues, k + 1, replacement, valueFlags,
         StringReplace(newText, valueRegex, IndexedReplacement(replacement, k - 1)),
         MapPut(replacementMap, distinctValues[k], IndexedReplacement(replacement, k - 1)))

ReplaceDistinct(distinctValues, k, replacement, valueFlags, newText, replacementMap) ==
  IF k > Len(distinctValues)
  THEN [ok |-> TRUE, newText |-> newText, replacementMap |-> replacementMap]
  ELSE ReplaceValue(distinctValues, k, replacement, valueFlags, newText, replacementMap,
                    NewRegExp(escapeRegExp(distinctValues[k]), valueFlags))

\* What applyRule returns: the outcome of the replacement passes, or the
\* catch block's record when one of them threw.
ApplyRuleResult(text, matches, replaced) ==
  IF replaced.ok
  THEN [newText |-> replaced.newText, matches |-> matches,
        replacementMap |-> replaced.replacementMap]
  ELSE [newText |-> text, matches |-> << >>, replacementMap |-> EmptyMap]

\* The flags of the value regex: "gi" or "g" in regex mode, "g" in literal mode.
ValueFlagsOf(rule) ==
  IF rule.isRegex THEN ValueRegexFlags(FlagsOrDefault(rule.flags)) ELSE << "g" >>

\* applyRule after its scan loop has collected matches: the distinct values,
\* the replacement passes and the returned record.
ApplyRuleFinish(text, rule, matches) ==
  ApplyRuleResult(text, matches,
    ReplaceDistinct(DistinctValues(matches), 1, rule.replacement, ValueFlagsOf(rule),
                    text, EmptyMap))

\* Regex mode of the scan loop: regex.exec(text), and lastIndex++ after an
\* empty match.
RegexStep(m) ==
  [found |-> m.found, match |-> m.match0,
   index |-> IF m.found /\ m.match0 = << >> THEN m.lastIndex + 1 ELSE m.lastIndex]

\* Literal mode of the scan loop: at is lowerText.indexOf(lowerPattern,
\* index); the matched text is taken from the original text and
\* index += pattern.length.
LiteralStep(text, pattern, at) ==
  IF at = -1 THEN [found |-> FALSE, match |-> << >>, index |-> -1]
  ELSE [found |-> TRUE,
        match |-> Substring(text, at, at + Len(pattern)),
        index |-> at + Len(pattern)]

\* One evaluation of the scan loop's condition in applyRule and testPattern;
\* found = FALSE is the exit of the loop.
ScanStep(text, pattern, isRegex, flags, index) ==
  IF isRegex
  THEN RegexStep(RegExpExec(NewRegExp(pattern, FlagsOrDefault(flags)), text, index))
  ELSE LiteralStep(text, pattern,
                   IndexOf(ToLowerCase(text), ToLowerCase(pattern), index))

\* The regex of a regex rule compiles (the try block is not left at once).
Compiles(pattern, isRegex, flags) ==
  isRegex => NewRegExp(pattern, FlagsOrDefault(flags)).ok

(***************************************************************************)
(* Bounds                                                                  *)
(***************************************************************************)

\* Longest text given to a single rule, longest text given to a rule list,
\* longest rule list, and the number of matches after which a scan loop
\* that is still running is cut off.
MaxTextLen == 3
MaxListTextLen == 2
MaxRules == 2
MaxScan == 6
MaxPatternLen == 3
MaxLiveRules == 2
MaxAdds == 2
MaxIdList == 2
MaxClickEntries == 4

(***************************************************************************)
(* The calls run to completion, as functions of their arguments.  returns  *)
(* is FALSE when a scan loop is still running after MaxScan matches.       *)
(***************************************************************************)

RECURSIVE ScanAll(_, _, _, _, _, _)
ScanNext(text, pattern, isRegex, flags, matches, step) ==
  IF ~step.found THEN [returns |-> TRUE, matches |-> matches]
  ELSE IF Len(matches) >= MaxScan THEN [returns |-> FALSE]
  ELSE ScanAll(text, pattern, isRegex, flags, step.index, Append(matches, step.match))

\* The scan loop of applyRule and testPattern from lastIndex (index) = index.
ScanAll(text, pattern, isRegex, flags, index, matches) ==
  ScanNext(text, pattern, isRegex, flags, matches,
           ScanStep(text, pattern, isRegex, flags, index))

ApplyRuleScanned(rule, scan, finished) ==
  IF ~scan.returns THEN [returns |-> FALSE]
  ELSE [returns |-> TRUE, newText |-> finished.newText, matches |-> finished.matches,
        replacementMap |-> finished.replacementMap]

ApplyRuleAfterScan(text, rule, scan) ==
  ApplyRuleScanned(rule, scan,
    IF scan.returns THEN ApplyRuleFinish(text, rule, scan.matches) ELSE [returns |-> FALSE])

\* applyRule(text, rule)
applyRule(text, rule) ==
  IF ~Compiles(rule.pattern, rule.isRegex, rule.flags)
  THEN [returns |-> TRUE, newText |-> text, matches |-> << >>, replacementMap |-> EmptyMap]
  ELSE ApplyRuleAfterScan(text, rule,
         ScanAll(text, rule.pattern, rule.isRegex, rule.flags, 0, << >>))

AppliedRule(rule, applied) ==
  [rule |-> rule, matchCount |-> Len(applied.matches), matches |-> applied.matches,
   replacementMap |-> applied.replacementMap]

SanitizationResult(text, working, applied) ==
  [originalText |-> text, sanitizedText |-> working, appliedRules |-> applied,
   hasChanges |-> working # text]

RECURSIVE SanitizeLoop(_, _, _, _, _)
SanitizeTake(text, enabled, k, working, applied, r) ==
  IF ~r.returns THEN [returns |-> FALSE]
  ELSE IF Len(r.matches) > 0
    THEN SanitizeLoop(text, enabled, k + 1, r.newText,
                      Append(applied, AppliedRule(enabled[k], r)))
  ELSE SanitizeLoop(text, enabled, k + 1, working, applied)

\* The for loop of sanitize from its k-th enabled rule.
SanitizeLoop(text, enabled, k, working, applied) ==
  IF k > Len(enabled)
  THEN [returns |-> TRUE, result |-> SanitizationResult(text, working, applied)]
  ELSE SanitizeTake(text, enabled, k, working, applied, applyRule(working, enabled[k]))

\* rules.filter((r) => r.enabled)
EnabledOf(rs) == SelectSeq(rs, LAMBDA r : r.enabled)

\* sanitize(text, rules)
sanitize(text, rs) == SanitizeLoop(text, EnabledOf(rs), 1, text, << >>)

EmptyTestResult == [matches |-> << >>, count |-> 0]

TestPatternScanned(scan) ==
  IF ~scan.returns THEN [returns |-> FALSE]
  ELSE [returns |-> TRUE,
        result |-> [matches |-> scan.matches, count |-> Len(scan.matches)]]

\* testPattern(text, pattern, isRegex, flags)
testPattern(text, pattern, isRegex, flags) ==
  IF pattern = << >> \/ text = << >> \/ ~Compiles(pattern, isRegex, flags)
  THEN [returns |-> TRUE, result |-> EmptyTestResult]
  ELSE TestPatternScanned(ScanAll(text, pattern, isRegex, flags, 0, << >>))

\* (e as Error).message of the SyntaxError thrown by new RegExp; the wording
\* is the engine's.
SyntaxErrorMessage == "Invalid regular expression"

\* A validatePattern without the test for the empty pattern.
validatePattern_NoEmptyCheck(pattern, isRegex) ==
  IF isRegex
  THEN IF NewRegExp(pattern, << >>).ok THEN [valid |-> TRUE]
       ELSE [valid |-> FALSE, error |-> SyntaxErrorMessage]
  ELSE [valid |-> TRUE]

\* validatePattern(pattern, isRegex)
validatePattern(pattern, isRegex) ==
  IF pattern = << >> THEN [valid |-> FALSE, error |-> "Pattern cannot be empty"]
  ELSE IF isRegex
    THEN IF NewRegExp(pattern, << >>).ok THEN [valid |-> TRUE]
         ELSE [valid |-> FALSE, error |-> SyntaxErrorMessage]
  ELSE [valid |-> TRUE]

(***************************************************************************)
(* Inputs                                                                  *)
(***************************************************************************)

RECURSIVE StringsUpTo(_, _)
StringsUpTo(alphabet, n) ==
  IF n = 0 THEN { << >> }
  ELSE LET shorter == StringsUpTo(alphabet, n - 1) IN
       shorter \cup { Append(s, c) : s \in shorter, c \in alphabet }

TextChars == {"a", "A", "b", "1"}
Texts == StringsUpTo(TextChars, MaxTextLen)

ListTextChars == {"a", "b"}
ListTexts == StringsUpTo(ListTextChars, MaxListTextLen)

\* Regex sources: a, a*, [a-b]+, ab|a, \d|a, \ba and the malformed (a.
RegexPatterns ==
  { << "a" >>,
    << "a", "*" >>,
    << "[", "a", "-", "b", "]", "+" >>,
    << "a", "b", "|", "a" >>,
    << "\\", "d", "|", "a" >>,
    << "\\", "b", "a" >>,
    << "(", "a" >> }

\* Flag strings: absent or empty, g, gi, i alone, and the invalid gg.
FlagStrings == { << >>, << "g" >>, << "g", "i" >>, << "i" >>, << "g", "g" >> }

LiteralPatterns == { << "a" >>, << "a", "b" >>, << "A", "a" >>, << "1" >> }

\* Replacement prefixes: T and $& .
Replacements == { << "T" >>, << "$", "&" >> }

Rule(pattern, replacement, isRegex, flags, enabled) ==
  [pattern |-> pattern, replacement |-> replacement, isRegex |-> isRegex,
   flags |-> flags, enabled |-> enabled]

\* The rules given alone to sanitize.
RulePool ==
  { Rule(p, r, TRUE, f, TRUE) : p \in RegexPatterns, r \in Replacements, f \in FlagStrings }
  \cup { Rule(p, r, FALSE, << >>, TRUE) : p \in LiteralPatterns, r \in Replacements }

\* The rules that rule lists are made of: literal a -> T, literal T_1 -> U
\* (which matches only the token of the first), regex b* -> V and the
\* malformed regex (a, each enabled or disabled.
ListPool ==
  { Rule(<< "a" >>, << "T" >>, FALSE, << >>, e) : e \in BOOLEAN }
  \cup { Rule(<< "T", "_", "1" >>, << "U" >>, FALSE, << >>, e) : e \in BOOLEAN }
  \cup { Rule(<< "b", "*" >>, << "V" >>, TRUE, << "g" >>, e) : e \in BOOLEAN }
  \cup { Rule(<< "(", "a" >>, << "W" >>, TRUE, << "g" >>, e) : e \in BOOLEAN }

RECURSIVE ListsUpTo(_, _)
ListsUpTo(pool, n) ==
  IF n = 0 THEN { << >> }
  ELSE LET shorter == ListsUpTo(pool, n - 1) IN
       shorter \cup { Append(l, r) : l \in shorter, r \in pool }

RuleLists == ListsUpTo(ListPool, MaxRules)

\* Texts with a regex metacharacter, and literal rules whose pattern has one.
MetaTextChars == {"a", "."}
MetaTexts == StringsUpTo(MetaTextChars, MaxTextLen)

MetaRulePool ==
  { Rule(p, << "T" >>, FALSE, << >>, TRUE) : p \in { << "." >>, << "a", "." >> } }

\* The examples of the specification, given to sanitize as they are written.
\* Two addresses, one of them twice.
EmailText ==
  << "c", "o", "n", "t", "a", "c", "t", " " >>
  \o << "a", "@", "x", ".", "c", "o", "m", " ", "o", "r", " " >>
  \o << "b", "@", "y", ".", "c", "o", "m", " ", "o", "r", " " >>
  \o << "a", "@", "x", ".", "c", "o", "m", " ", "a", "g", "a", "i", "n" >>

EmailRule ==
  Rule(<< "[", "a", "-", "z", "]", "+", "@", "[", "a", "-", "z", "]", "+",
          "\\", ".", "c", "o", "m" >>,
       << "[", "E", "M", "A", "I", "L", "]" >>, TRUE, << "g" >>, TRUE)

EmailSanitized ==
  << "c", "o", "n", "t", "a", "c", "t", " " >>
  \o << "[", "E", "M", "A", "I", "L", "]", "_", "1", " ", "o", "r", " " >>
  \o << "[", "E", "M", "A", "I", "L", "]", "_", "2", " ", "o", "r", " " >>
  \o << "[", "E", "M", "A", "I", "L", "]", "_", "1", " ", "a", "g", "a", "i", "n" >>

\* R1 = literal foo -> [A] and R2 = literal [A]_1 -> [B], on the text foo.
FooText == << "f", "o", "o" >>

FooRules ==
  << Rule(<< "f", "o", "o" >>, << "[", "A", "]" >>, FALSE, << >>, TRUE),
     Rule(<< "[", "A", "]", "_", "1" >>, << "[", "B", "]" >>, FALSE, << >>, TRUE) >>

\* The literal pattern foo on the text FOO Foo.
FooUpperText == << "F", "O", "O", " ", "F", "o", "o" >>

FooLiteralRules ==
  << Rule(<< "f", "o", "o" >>, << "[", "A", "]" >>, FALSE, << >>, TRUE) >>

\* The literal pattern a.b on the text a.b and axb.
DotText == << "a", ".", "b", " ", "a", "n", "d", " ", "a", "x", "b" >>

DotRules == << Rule(<< "a", ".", "b" >>, << "T" >>, FALSE, << >>, TRUE) >>

\* The literal pattern aa on the texts aaaa and aaa.
FourAText == << "a", "a", "a", "a" >>

ThreeAText == << "a", "a", "a" >>

DoubleARules == << Rule(<< "a", "a" >>, << "T" >>, FALSE, << >>, TRUE) >>

Examples ==
  { [text |-> EmailText, rules |-> << EmailRule >>],
    [text |-> FooText, rules |-> FooRules],
    [text |-> FooUpperText, rules |-> FooLiteralRules],
    [text |-> DotText, rules |-> DotRules],
    [text |-> FourAText, rules |-> DoubleARules],
    [text |-> ThreeAText, rules |-> DoubleARules] }

\* Two more calls: a rule whose token is the text it replaces (T_1 is
\* replaced by T_1), and the literal aa on a text that holds it in three
\* spellings.
TokenText == << "T", "_", "1" >>

TokenRules == << Rule(<< "T", "_", "1" >>, << "T" >>, FALSE, << >>, TRUE) >>

MixedCaseText == << "a", "a", "A", "a", "a", "A" >>

\* Two digits, and the rule \d -> [N]: the second digit, 1, is in the token
\* of the first.
DigitText == << "5", " ", "1" >>

DigitRules == << Rule(<< "\\", "d" >>, << "[", "N", "]" >>, TRUE, << "g" >>, TRUE) >>

\* foo as a word and inside foobar, and the rule \bfoo\b -> T.
WordText == << "f", "o", "o", " ", "f", "o", "o", "b", "a", "r" >>

WordRules ==
  << Rule(<< "\\", "b", "f", "o", "o", "\\", "b" >>, << "T" >>, TRUE, << "g" >>, TRUE) >>

FurtherCalls ==
  { [text |-> TokenText, rules |-> TokenRules],
    [text |-> MixedCaseText, rules |-> DoubleARules],
    [text |-> DigitText, rules |-> DigitRules],
    [text |-> WordText, rules |-> WordRules] }

\* The patterns given to validatePattern: the strings of letters,
\* parentheses and stars, and (unclosed.
ValidateChars == {"a", "(", ")", "*"}

Unclosed == << "(", "u", "n", "c", "l", "o", "s", "e", "d" >>

ValidatePatterns == StringsUpTo(ValidateChars, MaxPatternLen) \cup { Unclosed }

\* The live rule lists of the content script: up to MaxLiveRules rules, each
\* with an id and its enabled flag.
RuleIds == {"r1", "r2"}

LiveRule(id, enabled) == [id |-> id, enabled |-> enabled]

LiveRulePool == { LiveRule(id, e) : id \in RuleIds, e \in BOOLEAN }

LiveLists == ListsUpTo(LiveRulePool, MaxLiveRules)

\* The stored rules: a rule is its id and its enabled flag.  DEFAULT_RULES
\* are the seven system rules, all enabled.
DefaultIds ==
  << "sys-email", "sys-phone", "sys-ssn", "sys-credit-card", "sys-ip-address",
     "sys-aadhar", "sys-pan" >>

DEFAULT_RULES == [i \in 1..Len(DefaultIds) |-> LiveRule(DefaultIds[i], TRUE)]

\* The ids crypto.randomUUID() gives out, in order: each one is new.
UuidNames == << "uuid-1", "uuid-2", "uuid-3", "uuid-4" >>

\* The ids the callers name in updateRule, deleteRule, toggleRule and
\* reorderRules.
ArgIds == {"sys-email", "imp-1", "uuid-1"}

IdLists == ListsUpTo(ArgIds, MaxIdList)

\* The rule arrays of the imported JSON files.
ImportedPool == { LiveRule(id, TRUE) : id \in {"imp-1", "imp-2", "sys-email"} }

ImportedFiles == ListsUpTo(ImportedPool, MaxIdList)

\* The page: its rule list is the literal rule a -> T, and the input holds
\* one of a few texts or what sanitize makes of them.
PageRules == << Rule(<< "a" >>, << "T" >>, FALSE, << >>, TRUE) >>

TypedTexts == { << >>, << " " >>, << "a" >>, << "b" >> }

PageTexts == TypedTexts \cup { sanitize(t, PageRules).result.sanitizedText : t \in TypedTexts }

\* text.trim()
RECURSIVE Trim(_)
Trim(str) ==
  IF str = << >> THEN << >>
  ELSE IF Head(str) = " " THEN Trim(Tail(str))
  ELSE IF str[Len(str)] = " " THEN Trim(SubSeq(str, 1, Len(str) - 1))
  ELSE str

(***************************************************************************)
(* State                                                                   *)
(***************************************************************************)

VARIABLES
  text,           \* sanitize's and testPattern's text argument
  rules,          \* sanitize's rules argument
  pc,             \* where the running call is
  enabledRules,   \* sanitize: rules.filter((r) => r.enabled)
  ruleIdx,        \* sanitize: position of the for loop in enabledRules
  sanitizedText,  \* sanitize: the working text
  appliedRules,   \* sanitize: the AppliedRule entries pushed so far
  matches,        \* applyRule: the matches pushed by the scan loop
  scanIndex,      \* applyRule: regexForMatching.lastIndex, or index
  result,         \* the SanitizationResult returned by sanitize
  tpRule,         \* testPattern: the rule whose pattern, isRegex, flags are the arguments
  tpMatches,      \* testPattern: the matches pushed by the scan loop
  tpIndex,        \* testPattern: regex.lastIndex, or index
  tpResult,       \* the record returned by testPattern
  vpPattern,      \* validatePattern: the pattern argument
  vpIsRegex,      \* validatePattern: the isRegex argument
  vpResult,       \* the record returned by validatePattern
  liveRules,      \* content script: let rules, the live rule list
  cStep,          \* content script: where the running handler is
  swrStates,      \* sanitizeWithRules: originalEnabledStates
  swrSelected,    \* sanitizeWithRules: the ids of selectedRules
  preview,        \* showPreview: allMatchingRules and selectedRuleIds of the open modal
  updatePending,  \* showPreview: the initial updatePreview() is still to run
  swrCall,        \* the last sanitizeWithRules call: the list before, toggled, returned
  lastRead,       \* the last read of the live list outside sanitizeWithRules
  stored,         \* storage: the rules under the key "rules"
  nextUuid,       \* storage: how many ids crypto.randomUUID() has given out
  lastOp,         \* storage: the last operation of StorageService that ran
  inputText,      \* page: the text of the input (handler.getInputText())
  autoSanitize,   \* page: settings.autoSanitize
  isAutoSanitizing,   \* page: let isAutoSanitizing
  replacementSession, \* page: let replacementSession
  clickEvent,     \* page: the click that button.click() is dispatching
  listenerEntries,    \* page: entries of the click listener since the last user click or timer
  modal,          \* page: the showPreview call that is awaited
  timers,         \* page: the pending setTimeout callbacks of the submit paths
  toast,          \* page: the last showToast message
  lastEvent,      \* page: the last handler that ran
  before,         \* page: the input text and the session before the last handler
  lastSubmit,     \* page: how the last submit click or keydown was handled
  previewed,      \* showPreview: what it resolved with
  addCalls        \* storage: the store at the start and the two addRule calls under way

vars ==
  << text, rules, pc, enabledRules, ruleIdx, sanitizedText, appliedRules,
     matches, scanIndex, result, tpRule, tpMatches, tpIndex, tpResult,
     vpPattern, vpIsRegex, vpResult,
     liveRules, cStep, swrStates, swrSelected, preview, updatePending, swrCall, lastRead,
     stored, nextUuid, lastOp,
     inputText, autoSanitize, isAutoSanitizing, replacementSession, clickEvent,
     listenerEntries, modal, timers, toast, lastEvent, before, lastSubmit,
     previewed, addCalls >>

sanitizeVars == << enabledRules, ruleIdx, sanitizedText, appliedRules, matches, scanIndex, result >>
testPatternVars == << tpRule, tpMatches, tpIndex, tpResult >>
validateVars == << vpPattern, vpIsRegex, vpResult >>

\* The variables of the other parts of the program.
contentVars ==
  << liveRules, cStep, swrStates, swrSelected, preview, updatePending, swrCall, lastRead >>
storageVars == << stored, nextUuid, lastOp >>
pageVars ==
  << inputText, autoSanitize, isAutoSanitizing, replacementSession, clickEvent,
     listenerEntries, modal, timers, toast, lastEvent, before, lastSubmit >>
previewVars == << previewed >>
raceVars == << addCalls >>
otherVars == << validateVars, contentVars, storageVars, pageVars, previewVars, raceVars >>

\* What the content script leaves alone, and what StorageService does.
contentFrame ==
  << text, rules, pc, sanitizeVars, testPatternVars, validateVars, storageVars, pageVars,
     previewVars, raceVars >>
storageFrame ==
  << text, rules, pc, sanitizeVars, testPatternVars, validateVars, contentVars, pageVars,
     previewVars, raceVars >>
pageFrame ==
  << text, rules, pc, sanitizeVars, testPatternVars, validateVars, contentVars, storageVars,
     previewVars, raceVars >>
previewFrame ==
  << text, rules, enabledRules, ruleIdx, sanitizedText, appliedRules, matches, scanIndex,
     testPatternVars, validateVars, contentVars, storageVars, pageVars, raceVars >>
raceFrame ==
  << text, rules, pc, sanitizeVars, testPatternVars, validateVars, contentVars, pageVars,
     previewVars, nextUuid, lastOp >>

None == [none |-> TRUE]

\* No call of sanitize or testPattern is under way.
SanitizerIdle ==
  /\ text = << >>
  /\ rules = << >>
  /\ enabledRules = << >>
  /\ ruleIdx = 0
  /\ sanitizedText = << >>
  /\ appliedRules = << >>
  /\ matches = << >>
  /\ scanIndex = 0
  /\ result = None
  /\ tpRule = None
  /\ tpMatches = << >>
  /\ tpIndex = 0
  /\ tpResult = None

\* No call of validatePattern is under way.
ValidateIdle ==
  /\ vpPattern = << >>
  /\ vpIsRegex = FALSE
  /\ vpResult = None

\* The content script is not loaded.
ContentIdle ==
  /\ liveRules = << >>
  /\ cStep = "idle"
  /\ swrStates = << >>
  /\ swrSelected = {}
  /\ preview = None
  /\ updatePending = FALSE
  /\ swrCall = None
  /\ lastRead = None

\* No page is open.
PageIdle ==
  /\ previewed = None
  /\ inputText = << >>
  /\ autoSanitize = FALSE
  /\ isAutoSanitizing = FALSE
  /\ replacementSession = None
  /\ clickEvent = "none"
  /\ listenerEntries = 0
  /\ modal = None
  /\ timers = {}
  /\ toast = "none"
  /\ lastEvent = "none"
  /\ before = None
  /\ lastSubmit = None

\* No StorageService is in use.
StorageIdle ==
  /\ stored = << >>
  /\ nextUuid = 0
  /\ lastOp = "none"
  /\ addCalls = None

Init ==
  /\ \/ text \in Texts /\ \E r \in RulePool : rules = << r >>
     \/ text \in ListTexts /\ rules \in RuleLists
     \/ text \in MetaTexts /\ \E r \in MetaRulePool : rules = << r >>
     \/ \E e \in Examples \cup FurtherCalls : text = e.text /\ rules = e.rules
  /\ pc = "call"
  /\ enabledRules = << >>
  /\ ruleIdx = 0
  /\ sanitizedText = << >>
  /\ appliedRules = << >>
  /\ matches = << >>
  /\ scanIndex = 0
  /\ result = None
  /\ tpRule = None
  /\ tpMatches = << >>
  /\ tpIndex = 0
  /\ tpResult = None
  /\ ValidateIdle
  /\ ContentIdle
  /\ StorageIdle
  /\ PageIdle

(***************************************************************************)
(* sanitize(text, rules)                                                   *)
(***************************************************************************)

\* An entry of sanitize that keeps the disabled rules.
SanitizeEnter_NoFilter ==
  /\ pc = "call"
  /\ enabledRules' = rules
  /\ sanitizedText' = text
  /\ appliedRules' = << >>
  /\ ruleIdx' = 1
  /\ pc' = "loop"
  /\ UNCHANGED << text, rules, matches, scanIndex, result >>
  /\ UNCHANGED testPatternVars
  /\ UNCHANGED otherVars

\* An entry of sanitize that starts from an empty working text.
SanitizeEnter_EmptyWorkingText ==
  /\ pc = "call"
  /\ enabledRules' = EnabledOf(rules)
  /\ sanitizedText' = << >>
  /\ appliedRules' = << >>
  /\ ruleIdx' = 1
  /\ pc' = "loop"
  /\ UNCHANGED << text, rules, matches, scanIndex, result >>
  /\ UNCHANGED testPatternVars
  /\ UNCHANGED otherVars

\* An entry of sanitize that removes the disabled rules from the list it
\* was given.
SanitizeEnter_FilterInPlace ==
  /\ pc = "call"
  /\ rules' = EnabledOf(rules)
  /\ enabledRules' = EnabledOf(rules)
  /\ sanitizedText' = text
  /\ appliedRules' = << >>
  /\ ruleIdx' = 1
  /\ pc' = "loop"
  /\ UNCHANGED << text, matches, scanIndex, result >>
  /\ UNCHANGED testPatternVars
  /\ UNCHANGED otherVars

\* Entry of sanitize: the enabled rules, the working text, no applied rule.
SanitizeEnter ==
  /\ pc = "call"
  /\ enabledRules' = EnabledOf(rules)
  /\ sanitizedText' = text
  /\ appliedRules' = << >>
  /\ ruleIdx' = 1
  /\ pc' = "loop"
  /\ UNCHANGED << text, rules, matches, scanIndex, result >>
  /\ UNCHANGED testPatternVars
  /\ UNCHANGED otherVars

\* A failed compilation that ends the loop over the rules.
ApplyRuleCatch_Abort ==
  /\ pc = "loop"
  /\ ruleIdx <= Len(enabledRules)
  /\ ~Compiles(enabledRules[ruleIdx].pattern, enabledRules[ruleIdx].isRegex,
               enabledRules[ruleIdx].flags)
  /\ ruleIdx' = Len(enabledRules) + 1
  /\ UNCHANGED << text, rules, pc, enabledRules, sanitizedText, appliedRules,
                  matches, scanIndex, result >>
  /\ UNCHANGED testPatternVars
  /\ UNCHANGED otherVars

\* applyRule on a regex rule whose new RegExp throws: the catch block returns
\* the text unchanged and no matches, so sanitize pushes nothing.
ApplyRuleCatch ==
  /\ pc = "loop"
  /\ ruleIdx <= Len(enabledRules)
  /\ ~Compiles(enabledRules[ruleIdx].pattern, enabledRules[ruleIdx].isRegex,
               enabledRules[ruleIdx].flags)
  /\ ruleIdx' = ruleIdx + 1
  /\ UNCHANGED << text, rules, pc, enabledRules, sanitizedText, appliedRules,
                  matches, scanIndex, result >>
  /\ UNCHANGED testPatternVars
  /\ UNCHANGED otherVars

\* applyRule reaches its scan loop: matches = [] and lastIndex (index) = 0.
ApplyRuleEnter ==
  /\ pc = "loop"
  /\ ruleIdx <= Len(enabledRules)
  /\ Compiles(enabledRules[ruleIdx].pattern, enabledRules[ruleIdx].isRegex,
              enabledRules[ruleIdx].flags)
  /\ matches' = << >>
  /\ scanIndex' = 0
  /\ pc' = "scan"
  /\ UNCHANGED << text, rules, enabledRules, ruleIdx, sanitizedText, appliedRules, result >>
  /\ UNCHANGED testPatternVars
  /\ UNCHANGED otherVars

\* The text of the original call, in place of the working text.
WorkingText_Original == text

\* The text sanitize hands to applyRule: the text as the rules before have
\* left it.
WorkingText == sanitizedText

\* matches.push(match[0]) and the new lastIndex (index).
PushMatch(step) ==
  /\ step.found
  /\ matches' = Append(matches, step.match)
  /\ scanIndex' = step.index

\* One iteration of applyRule's scan loop: a match is pushed.
ApplyRuleScan ==
  /\ pc = "scan"
  /\ Len(matches) < MaxScan
  /\ PushMatch(ScanStep(WorkingText, enabledRules[ruleIdx].pattern,
                        enabledRules[ruleIdx].isRegex, enabledRules[ruleIdx].flags,
                        scanIndex))
  /\ UNCHANGED << text, rules, pc, enabledRules, ruleIdx, sanitizedText, appliedRules, result >>
  /\ UNCHANGED testPatternVars
  /\ UNCHANGED otherVars

\* A use of what applyRule returned that pushes an AppliedRule for every
\* rule.
TakeApplied_Always(rule, applied) ==
  /\ appliedRules' = Append(appliedRules,
                            [rule |-> rule,
                             matchCount |-> Len(applied.matches),
                             matches |-> applied.matches,
                             replacementMap |-> applied.replacementMap])
  /\ sanitizedText' = applied.newText

\* sanitize's use of what applyRule returned: an AppliedRule is pushed and
\* the working text replaced only if there was a match.
TakeApplied(rule, applied) ==
  IF Len(applied.matches) > 0
  THEN /\ appliedRules' = Append(appliedRules,
                            [rule |-> rule,
                             matchCount |-> Len(applied.matches),
                             matches |-> applied.matches,
                             replacementMap |-> applied.replacementMap])
       /\ sanitizedText' = applied.newText
  ELSE UNCHANGED << appliedRules, sanitizedText >>

\* The scan loop ends; applyRule replaces the distinct values and returns;
\* sanitize pushes an AppliedRule and takes the new text if anything matched.
ApplyRuleReturn ==
  /\ pc = "scan"
  /\ ~ScanStep(WorkingText, enabledRules[ruleIdx].pattern,
               enabledRules[ruleIdx].isRegex, enabledRules[ruleIdx].flags,
               scanIndex).found
  /\ TakeApplied(enabledRules[ruleIdx],
                 ApplyRuleFinish(WorkingText, enabledRules[ruleIdx], matches))
  /\ ruleIdx' = ruleIdx + 1
  /\ pc' = "loop"
  /\ UNCHANGED << text, rules, enabledRules, matches, scanIndex, result >>
  /\ UNCHANGED testPatternVars
  /\ UNCHANGED otherVars

\* A return of sanitize that reports changes whenever a rule was applied.
SanitizeReturn_ChangedIfApplied ==
  /\ pc = "loop"
  /\ ruleIdx > Len(enabledRules)
  /\ result' = [originalText |-> text,
                sanitizedText |-> sanitizedText,
                appliedRules |-> appliedRules,
                hasChanges |-> appliedRules # << >>]
  /\ pc' = "returned"
  /\ UNCHANGED << text, rules, enabledRules, ruleIdx, sanitizedText, appliedRules,
                  matches, scanIndex >>
  /\ UNCHANGED testPatternVars
  /\ UNCHANGED otherVars

\* The for loop is over: sanitize returns its result.
SanitizeReturn ==
  /\ pc = "loop"
  /\ ruleIdx > Len(enabledRules)
  /\ result' = [originalText |-> text,
                sanitizedText |-> sanitizedText,
                appliedRules |-> appliedRules,
                hasChanges |-> sanitizedText # text]
  /\ pc' = "returned"
  /\ UNCHANGED << text, rules, enabledRules, ruleIdx, sanitizedText, appliedRules,
                  matches, scanIndex >>
  /\ UNCHANGED testPatternVars
  /\ UNCHANGED otherVars

(***************************************************************************)
(* testPattern(text, pattern, isRegex, flags), called after sanitize with   *)
(* the same text and the pattern, isRegex and flags of one of the rules.   *)
(***************************************************************************)

\* testPattern returns at once: empty pattern or text, or new RegExp throws.
TestPatternEmpty ==
  /\ pc = "returned"
  /\ \E k \in 1..Len(rules) :
       /\ \/ rules[k].pattern = << >>
          \/ text = << >>
          \/ ~Compiles(rules[k].pattern, rules[k].isRegex, rules[k].flags)
       /\ tpRule' = rules[k]
  /\ tpResult' = EmptyTestResult
  /\ pc' = "done"
  /\ UNCHANGED << text, rules, tpMatches, tpIndex >>
  /\ UNCHANGED sanitizeVars
  /\ UNCHANGED otherVars

\* testPattern reaches its scan loop.
TestPatternEnter ==
  /\ pc = "returned"
  /\ \E k \in 1..Len(rules) :
       /\ rules[k].pattern # << >>
       /\ text # << >>
       /\ Compiles(rules[k].pattern, rules[k].isRegex, rules[k].flags)
       /\ tpRule' = rules[k]
  /\ tpMatches' = << >>
  /\ tpIndex' = 0
  /\ pc' = "tpScan"
  /\ UNCHANGED << text, rules, tpResult >>
  /\ UNCHANGED sanitizeVars
  /\ UNCHANGED otherVars

\* matches.push(match[0]) and the new lastIndex (index) in testPattern.
TpPushMatch(step) ==
  /\ step.found
  /\ tpMatches' = Append(tpMatches, step.match)
  /\ tpIndex' = step.index

\* One iteration of testPattern's scan loop: a match is pushed.
TestPatternScan ==
  /\ pc = "tpScan"
  /\ Len(tpMatches) < MaxScan
  /\ TpPushMatch(ScanStep(text, tpRule.pattern, tpRule.isRegex, tpRule.flags, tpIndex))
  /\ UNCHANGED << text, rules, pc, tpRule, tpResult >>
  /\ UNCHANGED sanitizeVars
  /\ UNCHANGED otherVars

\* The scan loop ends: testPattern returns the matches and their count.
TestPatternReturn ==
  /\ pc = "tpScan"
  /\ ~ScanStep(text, tpRule.pattern, tpRule.isRegex, tpRule.flags, tpIndex).found
  /\ tpResult' = [matches |-> tpMatches, count |-> Len(tpMatches)]
  /\ pc' = "done"
  /\ UNCHANGED << text, rules, tpRule, tpMatches, tpIndex >>
  /\ UNCHANGED sanitizeVars
  /\ UNCHANGED otherVars

(***************************************************************************)
(* validatePattern(pattern, isRegex)                                       *)
(***************************************************************************)

\* A call of validatePattern is about to be made.
ValidateInit ==
  /\ vpPattern \in ValidatePatterns
  /\ vpIsRegex \in BOOLEAN
  /\ vpResult = None
  /\ pc = "validate"
  /\ SanitizerIdle
  /\ ContentIdle
  /\ StorageIdle
  /\ PageIdle

\* validatePattern returns.
ValidatePattern ==
  /\ pc = "validate"
  /\ vpResult' = validatePattern(vpPattern, vpIsRegex)
  /\ pc' = "validated"
  /\ UNCHANGED << text, rules, vpPattern, vpIsRegex >>
  /\ UNCHANGED << sanitizeVars, testPatternVars, contentVars, storageVars, pageVars,
                  previewVars, raceVars >>

ValidateNext == ValidatePattern

ValidateSpec == ValidateInit /\ [][ValidateNext]_vars

(***************************************************************************)
(* The content script: the live rule list, its handlers, and               *)
(* sanitizeWithRules.  A handler runs to its end, or to an await, before   *)
(* another one starts.                                                     *)
(***************************************************************************)

\* The steps of sanitizeWithRules at which it awaits: with such a step as
\* of the mutation below, another handler can run before the flags are
\* restored.
SanitizeWithRulesAwaits_AfterSanitize == {"sanitized"}

\* The steps of sanitizeWithRules at which it awaits: none, the function is
\* synchronous.
SanitizeWithRulesAwaits == {}

\* The steps between the toggle of the flags and their restoration.
FlippedSteps == {"toggled", "sanitized"}

\* A handler can start: no handler is running, or the running one awaits.
CanRun == cStep = "idle" \/ cStep \in SanitizeWithRulesAwaits

\* rules.map((r) => r.enabled)
originalEnabledStates(rs) == [i \in 1..Len(rs) |-> rs[i].enabled]

\* rules.forEach((r) => { r.enabled = selectedRules.some((sr) => sr.id === r.id) })
ToggleFor(rs, selectedIds) ==
  [i \in 1..Len(rs) |-> [rs[i] EXCEPT !.enabled = rs[i].id \in selectedIds]]

\* A restoration that leaves the flags as they are.
RestoreEnabled_None(rs, states) == rs

\* rules.forEach((r, i) => { r.enabled = originalEnabledStates[i] }); an
\* index beyond the saved states gives undefined, which is falsy.
RestoreEnabled(rs, states) ==
  [i \in 1..Len(rs) |->
     [rs[i] EXCEPT !.enabled = IF i <= Len(states) THEN states[i] ELSE FALSE]]

\* The ids of the enabled rules of rs.
EnabledIds(rs) == { rs[i].id : i \in { j \in 1..Len(rs) : rs[j].enabled } }

\* A read of the live list by by, outside sanitizeWithRules: what it saw and
\* whether the flags were flipped at that moment.
ReadBy(by) ==
  [by |-> by, enabled |-> EnabledIds(liveRules), flipped |-> cStep \in FlippedSteps,
   afterCall |-> swrCall # None]

\* The content script has loaded the rules (init).
ContentInit ==
  /\ liveRules \in LiveLists
  /\ cStep = "idle"
  /\ swrStates = << >>
  /\ swrSelected = {}
  /\ preview = None
  /\ updatePending = FALSE
  /\ swrCall = None
  /\ lastRead = None
  /\ pc = "content"
  /\ SanitizerIdle
  /\ ValidateIdle
  /\ StorageIdle
  /\ PageIdle

\* sanitizeWithRules(text, selectedRules) up to its call of sanitize: the
\* flags are saved and every rule is enabled exactly if it is selected.
SwrBegin(selectedIds) ==
  /\ swrStates' = originalEnabledStates(liveRules)
  /\ swrSelected' = selectedIds
  /\ liveRules' = ToggleFor(liveRules, selectedIds)
  /\ swrCall' = [before |-> liveRules, selected |-> selectedIds,
                 toggled |-> ToggleFor(liveRules, selectedIds), returned |-> FALSE]
  /\ cStep' = "toggled"

\* The storage-change callback: the live list is replaced and updateBadge
\* reads it.
StorageChanged ==
  /\ CanRun
  /\ \E l \in LiveLists :
       /\ liveRules' = l
       /\ lastRead' = [by |-> "updateBadge", enabled |-> EnabledIds(l),
                       flipped |-> cStep \in FlippedSteps, afterCall |-> swrCall # None]
  /\ swrCall' = IF cStep = "idle" THEN None ELSE swrCall
  /\ UNCHANGED << cStep, swrStates, swrSelected, preview, updatePending >>
  /\ UNCHANGED contentFrame

\* The debounced updateBadge: sanitize(text, rules).
UpdateBadge ==
  /\ CanRun
  /\ lastRead' = ReadBy("updateBadge")
  /\ UNCHANGED << liveRules, cStep, swrStates, swrSelected, preview, updatePending, swrCall >>
  /\ UNCHANGED contentFrame

\* A click or submit handler calls showPreview: findMatchingRules reads the
\* live list, the rules that match are among the enabled ones, and unless
\* the modal is the plain one (no matching rule, no revert option)
\* sanitizeWithRules is called with all of them selected.
OpenPreview ==
  /\ CanRun
  /\ preview = None
  /\ lastRead' = ReadBy("findMatchingRules")
  /\ \E matching \in SUBSET EnabledIds(liveRules), showRevertOption \in BOOLEAN :
       /\ preview' = [allMatchingRules |-> matching, selectedRuleIds |-> matching]
       /\ IF matching = {} /\ ~showRevertOption
          THEN UNCHANGED << liveRules, cStep, swrStates, swrSelected, updatePending, swrCall >>
          ELSE /\ SwrBegin(matching)
               /\ updatePending' = (matching # {})
  /\ UNCHANGED contentFrame

\* The initial updatePreview() of showPreview, in the same handler.
PreviewInitialUpdate ==
  /\ cStep = "between"
  /\ SwrBegin(preview.allMatchingRules \cap preview.selectedRuleIds)
  /\ updatePending' = FALSE
  /\ UNCHANGED << preview, lastRead >>
  /\ UNCHANGED contentFrame

\* A checkbox of the modal changes: the rule is selected or not, and
\* updatePreview calls sanitizeWithRules with the selected matching rules.
CheckboxChange ==
  /\ CanRun
  /\ preview # None
  /\ \E id \in preview.allMatchingRules :
       /\ preview' = [preview EXCEPT !.selectedRuleIds =
                        IF id \in @ THEN @ \ {id} ELSE @ \cup {id}]
       /\ SwrBegin(preview.allMatchingRules \cap
                   (IF id \in preview.selectedRuleIds
                    THEN preview.selectedRuleIds \ {id}
                    ELSE preview.selectedRuleIds \cup {id}))
  /\ UNCHANGED << updatePending, lastRead >>
  /\ UNCHANGED contentFrame

\* The modal is closed (apply, keep, revert or cancel).
ClosePreview ==
  /\ CanRun
  /\ preview # None
  /\ preview' = None
  /\ UNCHANGED << liveRules, cStep, swrStates, swrSelected, updatePending, swrCall, lastRead >>
  /\ UNCHANGED contentFrame

\* sanitizeWithRules calls sanitize(text, rules).
SwrSanitize ==
  /\ cStep = "toggled"
  /\ cStep' = "sanitized"
  /\ UNCHANGED << liveRules, swrStates, swrSelected, preview, updatePending, swrCall, lastRead >>
  /\ UNCHANGED contentFrame

\* sanitizeWithRules restores the flags and returns.
SwrRestore ==
  /\ cStep = "sanitized"
  /\ liveRules' = RestoreEnabled(liveRules, swrStates)
  /\ swrCall' = IF swrCall = None THEN None ELSE [swrCall EXCEPT !.returned = TRUE]
  /\ cStep' = IF updatePending THEN "between" ELSE "idle"
  /\ UNCHANGED << swrStates, swrSelected, preview, updatePending, lastRead >>
  /\ UNCHANGED contentFrame

ContentNext ==
  \/ StorageChanged
  \/ UpdateBadge
  \/ OpenPreview
  \/ PreviewInitialUpdate
  \/ CheckboxChange
  \/ ClosePreview
  \/ SwrSanitize
  \/ SwrRestore

ContentSpec == ContentInit /\ [][ContentNext]_vars

(***************************************************************************)
(* StorageService: the operations on the stored rules.                     *)
(***************************************************************************)

\* The ids of rs, as a set.
IdsOf(rs) == { rs[i].id : i \in 1..Len(rs) }

\* rules.findIndex((r) => r.id === id), 0 for -1.
FindIndex(rs, id) ==
  IF \E i \in 1..Len(rs) : rs[i].id = id
  THEN CHOOSE i \in 1..Len(rs) : rs[i].id = id /\ \A j \in 1..(i - 1) : rs[j].id # id
  ELSE 0

\* new Map(rules.map((r) => [r.id, r])).get(id): the last rule with the id.
RuleMapGet(rs, id) ==
  rs[CHOOSE i \in 1..Len(rs) : rs[i].id = id /\ \A j \in (i + 1)..Len(rs) : rs[j].id # id]

\* getRules(): the stored rules, and the default rules, which it stores,
\* when there are none.
getRules(rs) == IF Len(rs) = 0 THEN DEFAULT_RULES ELSE rs

\* updateRule's new list: the first rule with the id gets the updates.
Updated(rs, id, enabled) ==
  IF FindIndex(rs, id) = 0 THEN rs
  ELSE [rs EXCEPT ![FindIndex(rs, id)].enabled = enabled]

\* rules.filter((r) => r.id !== id)
WithoutId(rs, id) == SelectSeq(rs, LAMBDA r : r.id # id)

\* ruleIds.map((id) => ruleMap.get(id)).filter(defined)
Reordered(rs, ruleIds) ==
  LET known == SelectSeq(ruleIds, LAMBDA id : id \in IdsOf(rs))
  IN  [i \in 1..Len(known) |-> RuleMapGet(rs, known[i])]

\* importRules: with merge, the existing rules followed by the imported
\* rules whose id no existing rule has; without, the imported rules.
Imported(existing, imported, merge) ==
  IF merge
  THEN existing \o SelectSeq(imported, LAMBDA r : r.id \notin IdsOf(existing))
  ELSE imported

\* A store: empty before the first getRules, or holding the default rules.
StorageInit ==
  /\ stored \in { << >>, DEFAULT_RULES }
  /\ nextUuid = 0
  /\ lastOp = "none"
  /\ addCalls = None
  /\ pc = "storage"
  /\ SanitizerIdle
  /\ ValidateIdle
  /\ ContentIdle
  /\ PageIdle

AddRule ==
  /\ nextUuid < MaxAdds
  /\ \E enabled \in BOOLEAN :
       stored' = Append(getRules(stored), LiveRule(UuidNames[nextUuid + 1], enabled))
  /\ nextUuid' = nextUuid + 1
  /\ lastOp' = "addRule"
  /\ UNCHANGED storageFrame

UpdateRule ==
  /\ \E id \in ArgIds, enabled \in BOOLEAN :
       stored' = Updated(getRules(stored), id, enabled)
  /\ lastOp' = "updateRule"
  /\ UNCHANGED nextUuid
  /\ UNCHANGED storageFrame

DeleteRule ==
  /\ \E id \in ArgIds : stored' = WithoutId(getRules(stored), id)
  /\ lastOp' = "deleteRule"
  /\ UNCHANGED nextUuid
  /\ UNCHANGED storageFrame

\* toggleRule: updateRule(id, { enabled: !rule.enabled }) for the first rule
\* with the id.
ToggleRule ==
  /\ \E id \in ArgIds :
       stored' = IF FindIndex(getRules(stored), id) = 0 THEN getRules(stored)
                 ELSE Updated(getRules(stored), id,
                              ~getRules(stored)[FindIndex(getRules(stored), id)].enabled)
  /\ lastOp' = "toggleRule"
  /\ UNCHANGED nextUuid
  /\ UNCHANGED storageFrame

ReorderRules ==
  /\ \E ruleIds \in IdLists : stored' = Reordered(getRules(stored), ruleIds)
  /\ lastOp' = "reorderRules"
  /\ UNCHANGED nextUuid
  /\ UNCHANGED storageFrame

\* importRules(json, merge): with merge the existing rules come from
\* getRules; without, the store is not read.
ImportRules ==
  /\ \E imported \in ImportedFiles, merge \in BOOLEAN :
       stored' = Imported(IF merge THEN getRules(stored) ELSE stored, imported, merge)
  /\ lastOp' = "importRules"
  /\ UNCHANGED nextUuid
  /\ UNCHANGED storageFrame

\* getRules() called on its own.
GetRules ==
  /\ stored' = getRules(stored)
  /\ lastOp' = "getRules"
  /\ UNCHANGED nextUuid
  /\ UNCHANGED storageFrame

DeleteAllRules ==
  /\ stored' = << >>
  /\ lastOp' = "deleteAllRules"
  /\ UNCHANGED nextUuid
  /\ UNCHANGED storageFrame

ResetRules ==
  /\ stored' = DEFAULT_RULES
  /\ lastOp' = "resetRules"
  /\ UNCHANGED nextUuid
  /\ UNCHANGED storageFrame

StorageNext ==
  \/ GetRules
  \/ AddRule
  \/ UpdateRule
  \/ DeleteRule
  \/ ToggleRule
  \/ ReorderRules
  \/ ImportRules
  \/ DeleteAllRules
  \/ ResetRules

StorageSpec == StorageInit /\ [][StorageNext]_vars

(***************************************************************************)
(* The page: the input, the submit button's click listener, the keyboard   *)
(* shortcut, the sanitize, quick apply and quick revert buttons, the       *)
(* preview modal and the replacement session.                              *)
(***************************************************************************)

Session(originalText, sanitized) ==
  [originalText |-> originalText, sanitizedText |-> sanitized]

\* An input handler that keeps the session whatever the text is.
handleInput_KeepSession(session, currentText) == session

\* handleInput: the session is cleared when the input no longer shows its
\* sanitized text.
handleInput(session, currentText) ==
  IF session # None /\ currentText # session.sanitizedText THEN None ELSE session

\* A revert that puts the sanitized text of the session back.
RevertedText_Sanitized(session) == session.sanitizedText

\* The text revertSanitization sets: replacementSession.originalText.
RevertedText(session) == session.originalText

\* What the handlers keep of the state they start from.
Remember(event) ==
  /\ lastEvent' = event
  /\ before' = [inputText |-> inputText, session |-> replacementSession]

\* applySanitization(handler, originalText, sanitizedText, appliedRules): the
\* session is recorded; setInputText sets the text and dispatches an input
\* event, which handleInput handles.
ApplySanitization(originalText, sanitized) ==
  /\ replacementSession' = handleInput(Session(originalText, sanitized), sanitized)
  /\ inputText' = sanitized
  /\ toast' = "Sanitized"

\* revertSanitization(handler)
RevertSanitization ==
  IF replacementSession = None
  THEN /\ toast' = "No sanitization to revert"
       /\ UNCHANGED << inputText, replacementSession >>
  ELSE /\ inputText' = RevertedText(replacementSession)
       /\ replacementSession' = None
       /\ toast' = "Reverted to original text"

\* The page is loaded: the input holds a typed text.
PageInit ==
  /\ previewed = None
  /\ inputText \in TypedTexts
  /\ autoSanitize \in BOOLEAN
  /\ isAutoSanitizing = FALSE
  /\ replacementSession = None
  /\ clickEvent = "none"
  /\ listenerEntries = 0
  /\ modal = None
  /\ timers = {}
  /\ toast = "none"
  /\ lastEvent = "none"
  /\ before = None
  /\ lastSubmit = None
  /\ pc = "page"
  /\ SanitizerIdle
  /\ ValidateIdle
  /\ ContentIdle
  /\ StorageIdle

\* The user edits the input: an input event, handled by handleInput.
UserInput ==
  /\ clickEvent = "none"
  /\ \E t \in PageTexts :
       /\ inputText' = t
       /\ replacementSession' = handleInput(replacementSession, t)
  /\ Remember("input")
  /\ lastSubmit' = None
  /\ UNCHANGED << autoSanitize, isAutoSanitizing, clickEvent, listenerEntries, modal,
                  timers, toast >>
  /\ UNCHANGED pageFrame

\* How a submit click or keydown was handled.
Submit(by, user, intercepted, res) ==
  [by |-> by, user |-> user, flag |-> isAutoSanitizing, intercepted |-> intercepted,
   wouldChange |-> Trim(inputText) # << >> /\ res.hasChanges]

\* The click listener of the submit button, for a click of the user or one
\* that button.click() dispatches; res is sanitize(text, rules).
ClickListener(user, entries, res) ==
  /\ listenerEntries' = entries
  /\ Remember(IF user THEN "submitClick" ELSE "reissuedClick")
  /\ IF isAutoSanitizing
     THEN /\ isAutoSanitizing' = FALSE
          /\ clickEvent' = "none"
          /\ lastSubmit' = Submit("click", user, FALSE, res)
          /\ UNCHANGED << modal, toast >>
     ELSE IF ~autoSanitize
     THEN /\ clickEvent' = "none"
          /\ lastSubmit' = Submit("click", user, FALSE, res)
          /\ UNCHANGED << isAutoSanitizing, modal, toast >>
     ELSE IF Trim(inputText) = << >>
     THEN /\ toast' = "No text to sanitize"
          /\ isAutoSanitizing' = FALSE
          /\ clickEvent' = "none"
          /\ lastSubmit' = Submit("click", user, TRUE, res)
          /\ UNCHANGED modal
     ELSE IF ~res.hasChanges
     THEN /\ toast' = "No PII found, submitting..."
          /\ isAutoSanitizing' = FALSE
          /\ clickEvent' = "programmatic"
          /\ lastSubmit' = Submit("click", user, TRUE, res)
          /\ UNCHANGED modal
     ELSE /\ modal' = [kind |-> "submitClick", text |-> inputText,
                       sanitized |-> res.sanitizedText]
          /\ clickEvent' = "none"
          /\ lastSubmit' = Submit("click", user, TRUE, res)
          /\ UNCHANGED << isAutoSanitizing, toast >>
  /\ UNCHANGED << inputText, autoSanitize, replacementSession, timers >>
  /\ UNCHANGED pageFrame

\* The user clicks the submit button.
UserSubmitClick ==
  /\ clickEvent = "none"
  /\ modal = None
  /\ ClickListener(TRUE, 1, sanitize(inputText, PageRules).result)

\* The click that button.click() dispatches enters the listener.
ReissuedClick ==
  /\ clickEvent = "programmatic"
  /\ listenerEntries < MaxClickEntries
  /\ ClickListener(FALSE, listenerEntries + 1, sanitize(inputText, PageRules).result)

\* The keydown listener of the input; res is sanitize(text, rules).
KeydownListener(cmdEnter, res) ==
  /\ Remember("keydown")
  /\ IF isAutoSanitizing
     THEN /\ isAutoSanitizing' = FALSE
          /\ lastSubmit' = IF cmdEnter THEN Submit("key", TRUE, FALSE, res) ELSE None
          /\ UNCHANGED << modal, toast >>
     ELSE IF ~cmdEnter
     THEN /\ lastSubmit' = None
          /\ UNCHANGED << isAutoSanitizing, modal, toast >>
     ELSE IF ~autoSanitize
     THEN /\ lastSubmit' = Submit("key", TRUE, FALSE, res)
          /\ UNCHANGED << isAutoSanitizing, modal, toast >>
     ELSE IF Trim(inputText) = << >>
     THEN /\ toast' = "No text to sanitize"
          /\ lastSubmit' = Submit("key", TRUE, TRUE, res)
          /\ UNCHANGED << isAutoSanitizing, modal >>
     ELSE IF ~res.hasChanges
     THEN /\ toast' = "No PII found, submitting..."
          /\ lastSubmit' = Submit("key", TRUE, TRUE, res)
          /\ UNCHANGED << isAutoSanitizing, modal >>
     ELSE /\ modal' = [kind |-> "submitKey", text |-> inputText,
                       sanitized |-> res.sanitizedText]
          /\ lastSubmit' = Submit("key", TRUE, TRUE, res)
          /\ UNCHANGED << isAutoSanitizing, toast >>
  /\ UNCHANGED << inputText, autoSanitize, replacementSession, clickEvent,
                  listenerEntries, timers >>
  /\ UNCHANGED pageFrame

\* The user presses a key in the input: Cmd/Ctrl+Enter or another key.
UserKeydown ==
  /\ clickEvent = "none"
  /\ modal = None
  /\ \E cmdEnter \in BOOLEAN :
       KeydownListener(cmdEnter, sanitize(inputText, PageRules).result)

\* A setTimeout callback of a submit path runs: the one of the click
\* listener clicks its button, the one of the keydown listener looks for the
\* submit button, which then has the click listener or not.
TimerFire ==
  /\ clickEvent = "none"
  /\ \E path \in timers :
       /\ timers' = timers \ {path}
       /\ IF path = "submitClick"
          THEN /\ isAutoSanitizing' = TRUE
               /\ clickEvent' = "programmatic"
          ELSE \E found \in BOOLEAN, hasListener \in BOOLEAN :
                 /\ isAutoSanitizing' = (found \/ isAutoSanitizing)
                 /\ clickEvent' = IF found /\ hasListener THEN "programmatic" ELSE "none"
  /\ listenerEntries' = 0
  /\ Remember("timer")
  /\ lastSubmit' = None
  /\ UNCHANGED << inputText, autoSanitize, replacementSession, modal, toast >>
  /\ UNCHANGED pageFrame

\* handleSanitizeClick up to its await of showPreview.
SanitizeClick ==
  /\ clickEvent = "none"
  /\ modal = None
  /\ IF Trim(inputText) = << >>
     THEN toast' = "No text to sanitize" /\ UNCHANGED modal
     ELSE IF replacementSession # None /\ inputText = replacementSession.sanitizedText
     THEN modal' = [kind |-> "review", text |-> replacementSession.originalText,
                    sanitized |-> replacementSession.sanitizedText]
          /\ UNCHANGED toast
     ELSE modal' = [kind |-> "sanitize", text |-> inputText,
                    sanitized |-> sanitize(inputText, PageRules).result.sanitizedText]
          /\ UNCHANGED toast
  /\ Remember("sanitizeClick")
  /\ lastSubmit' = None
  /\ UNCHANGED << inputText, autoSanitize, isAutoSanitizing, replacementSession,
                  clickEvent, listenerEntries, timers >>
  /\ UNCHANGED pageFrame

\* handleQuickApplyClick; res is sanitize(text, rules).
QuickApply(res) ==
  IF Trim(inputText) = << >>
  THEN toast' = "No text to sanitize" /\ UNCHANGED << inputText, replacementSession, modal >>
  ELSE IF replacementSession # None /\ inputText = replacementSession.sanitizedText
  THEN /\ modal' = [kind |-> "review", text |-> replacementSession.originalText,
                    sanitized |-> replacementSession.sanitizedText]
       /\ UNCHANGED << inputText, replacementSession, toast >>
  ELSE IF ~res.hasChanges
  THEN toast' = "No matches found" /\ UNCHANGED << inputText, replacementSession, modal >>
  ELSE ApplySanitization(inputText, res.sanitizedText) /\ UNCHANGED modal

QuickApplyClick ==
  /\ clickEvent = "none"
  /\ modal = None
  /\ QuickApply(sanitize(inputText, PageRules).result)
  /\ Remember("quickApply")
  /\ lastSubmit' = None
  /\ UNCHANGED << autoSanitize, isAutoSanitizing, clickEvent, listenerEntries, timers >>
  /\ UNCHANGED pageFrame

\* handleQuickRevertClick
QuickRevertClick ==
  /\ clickEvent = "none"
  /\ modal = None
  /\ RevertSanitization
  /\ Remember("revert")
  /\ lastSubmit' = None
  /\ UNCHANGED << autoSanitize, isAutoSanitizing, clickEvent, listenerEntries, modal,
                  timers >>
  /\ UNCHANGED pageFrame

\* The modal of handleSanitizeClick is answered: apply or cancel.
SanitizeModalAnswer ==
  /\ clickEvent = "none"
  /\ modal # None
  /\ modal.kind = "sanitize"
  /\ \E action \in {"apply", "cancel"} :
       IF action = "apply" /\ modal.sanitized # << >>
       THEN ApplySanitization(modal.text, modal.sanitized) /\ Remember("apply")
       ELSE UNCHANGED << inputText, replacementSession, toast >> /\ Remember("cancel")
  /\ modal' = None
  /\ lastSubmit' = None
  /\ UNCHANGED << autoSanitize, isAutoSanitizing, clickEvent, listenerEntries, timers >>
  /\ UNCHANGED pageFrame

\* The review modal is answered: revert, or keep or cancel.
ReviewModalAnswer ==
  /\ clickEvent = "none"
  /\ modal # None
  /\ modal.kind = "review"
  /\ \E action \in {"revert", "cancel"} :
       IF action = "revert"
       THEN RevertSanitization /\ Remember("revert")
       ELSE UNCHANGED << inputText, replacementSession, toast >> /\ Remember("cancel")
  /\ modal' = None
  /\ lastSubmit' = None
  /\ UNCHANGED << autoSanitize, isAutoSanitizing, clickEvent, listenerEntries, timers >>
  /\ UNCHANGED pageFrame

\* The modal of a submit path is answered: on apply the text is set (an
\* input event follows) and the submit click is scheduled.
SubmitModalAnswer ==
  /\ clickEvent = "none"
  /\ modal # None
  /\ modal.kind \in {"submitClick", "submitKey"}
  /\ \E action \in {"apply", "cancel"} :
       IF action = "apply" /\ modal.sanitized # << >>
       THEN /\ inputText' = modal.sanitized
            /\ replacementSession' = handleInput(replacementSession, modal.sanitized)
            /\ toast' = "Auto-sanitized"
            /\ timers' = timers \cup {modal.kind}
       ELSE /\ toast' = "Submission cancelled"
            /\ UNCHANGED << inputText, replacementSession, timers >>
  /\ modal' = None
  /\ Remember("submitAnswer")
  /\ lastSubmit' = None
  /\ UNCHANGED << autoSanitize, isAutoSanitizing, clickEvent, listenerEntries >>
  /\ UNCHANGED pageFrame

PageNext ==
  \/ UserInput
  \/ UserSubmitClick
  \/ ReissuedClick
  \/ UserKeydown
  \/ TimerFire
  \/ SanitizeClick
  \/ QuickApplyClick
  \/ QuickRevertClick
  \/ SanitizeModalAnswer
  \/ ReviewModalAnswer
  \/ SubmitModalAnswer

PageSpec == PageInit /\ [][PageNext]_vars

(***************************************************************************)
(* Two addRule calls on one store, step by step: each call reads the       *)
(* stored rules (getRules), stores the default rules when there are none,  *)
(* and writes the rules it read with its new rule appended.                *)
(***************************************************************************)

AddCallers == {1, 2}

\* The stores the two calls start on: no rules, the default rules, or the
\* rules of an imported file with distinct ids.
RaceStores ==
  { << >>, DEFAULT_RULES }
  \cup { f \in ImportedFiles : \A i, j \in 1..Len(f) : f[i].id = f[j].id => i = j }

\* The rule that call c adds: crypto.randomUUID() gives each call its own id.
NewRule(c) == LiveRule(UuidNames[c], addCalls.calls[c].enabled)

AddRaceInit ==
  /\ stored \in RaceStores
  /\ \E e \in [AddCallers -> BOOLEAN] :
       addCalls = [initial |-> stored,
                   calls |-> [c \in AddCallers |->
                                [step |-> "start", local |-> << >>, enabled |-> e[c]]]]
  /\ nextUuid = 0
  /\ lastOp = "none"
  /\ pc = "race"
  /\ SanitizerIdle
  /\ ValidateIdle
  /\ ContentIdle
  /\ PageIdle

\* const data = await this.get(["rules"]): the call has the stored rules.
AddRead(c) ==
  /\ addCalls.calls[c].step = "start"
  /\ addCalls' = [addCalls EXCEPT !.calls[c].step = "read", !.calls[c].local = stored]
  /\ UNCHANGED stored
  /\ UNCHANGED raceFrame

\* rules.length === 0: initializeDefaultRules stores the default rules and
\* the call goes on with them.
AddInitDefaults(c) ==
  /\ addCalls.calls[c].step = "read"
  /\ addCalls.calls[c].local = << >>
  /\ stored' = DEFAULT_RULES
  /\ addCalls' = [addCalls EXCEPT !.calls[c].step = "got", !.calls[c].local = DEFAULT_RULES]
  /\ UNCHANGED raceFrame

\* rules.push(newRule); await this.set({ rules })
AddWrite(c) ==
  /\ \/ addCalls.calls[c].step = "got"
     \/ addCalls.calls[c].step = "read" /\ addCalls.calls[c].local # << >>
  /\ stored' = Append(addCalls.calls[c].local, NewRule(c))
  /\ addCalls' = [addCalls EXCEPT !.calls[c].step = "done"]
  /\ UNCHANGED raceFrame

AddRaceNext ==
  \/ \E c \in AddCallers : AddRead(c)
  \/ \E c \in AddCallers : AddInitDefaults(c)
  \/ \E c \in AddCallers : AddWrite(c)

AddRaceSpec == AddRaceInit /\ [][AddRaceNext]_vars

(***************************************************************************)
(* The sanitize button: handleSanitizeClick calls sanitize, and            *)
(* showPreview, answered with apply and no checkbox changed, resolves      *)
(* with the text it made itself.                                           *)
(***************************************************************************)

\* findMatchingRules(text): the positions of the enabled rules whose
\* pattern testPattern finds in the text.
findMatchingRules(str, rs) ==
  { i \in 1..Len(rs) :
      /\ rs[i].enabled
      /\ testPattern(str, rs[i].pattern, rs[i].isRegex, rs[i].flags).result.count > 0 }

\* The live rules as sanitizeWithRules has toggled them: a rule is enabled
\* exactly if it is selected.
ToggledRules(rs, selected) ==
  [i \in 1..Len(rs) |-> [rs[i] EXCEPT !.enabled = i \in selected]]

\* sanitizeWithRules(text, selectedRules)
sanitizeWithRules(str, rs, selected) == sanitize(str, ToggledRules(rs, selected)).result

\* What showPreview(original, sanitized, appliedRules) resolves with on
\* apply when no checkbox was changed; matching is findMatchingRules(original).
showPreviewApply(original, sanitized, rs, matching) ==
  IF matching = {}
  THEN [action |-> "apply", sanitizedText |-> sanitized]
  ELSE [action |-> "apply",
        sanitizedText |-> sanitizeWithRules(original, rs, matching).sanitizedText]

\* The input holds a text and the live list has rules.
PreviewInit ==
  /\ \/ text \in ListTexts /\ rules \in RuleLists
     \/ \E e \in Examples : text = e.text /\ rules = e.rules
  /\ pc = "page"
  /\ enabledRules = << >>
  /\ ruleIdx = 0
  /\ sanitizedText = << >>
  /\ appliedRules = << >>
  /\ matches = << >>
  /\ scanIndex = 0
  /\ result = None
  /\ tpRule = None
  /\ tpMatches = << >>
  /\ tpIndex = 0
  /\ tpResult = None
  /\ ValidateIdle
  /\ ContentIdle
  /\ StorageIdle
  /\ PageIdle

\* handleSanitizeClick without text in the input: a toast, no preview.
HandleSanitizeClickEmpty ==
  /\ pc = "page"
  /\ Trim(text) = << >>
  /\ pc' = "done"
  /\ UNCHANGED << result, previewed >>
  /\ UNCHANGED previewFrame

\* handleSanitizeClick up to its call of showPreview (for the calls whose
\* scans stay within MaxScan matches).
HandleSanitizeClick ==
  /\ pc = "page"
  /\ Trim(text) # << >>
  /\ sanitize(text, rules).returns
  /\ result' = sanitize(text, rules).result
  /\ pc' = "preview"
  /\ UNCHANGED previewed
  /\ UNCHANGED previewFrame

\* The user answers the modal with apply.
ShowPreviewApply ==
  /\ pc = "preview"
  /\ sanitize(text, ToggledRules(rules, findMatchingRules(text, rules))).returns
  /\ previewed' = showPreviewApply(text, result.sanitizedText, rules,
                                   findMatchingRules(text, rules))
  /\ pc' = "applied"
  /\ UNCHANGED result
  /\ UNCHANGED previewFrame

PreviewNext ==
  \/ HandleSanitizeClickEmpty
  \/ HandleSanitizeClick
  \/ ShowPreviewApply

PreviewSpec == PreviewInit /\ [][PreviewNext]_vars

Next ==
  \/ SanitizeEnter
  \/ ApplyRuleCatch
  \/ ApplyRuleEnter
  \/ ApplyRuleScan
  \/ ApplyRuleReturn
  \/ SanitizeReturn
  \/ TestPatternEmpty
  \/ TestPatternEnter
  \/ TestPatternScan
  \/ TestPatternReturn

Spec == Init /\ [][Next]_vars

(***************************************************************************)
(* Properties                                                              *)
(***************************************************************************)

\* The call of sanitize has returned.
Returned == pc \in {"returned", "tpScan", "done"}

\* The position at which value v is first seen in the match list ms.
FirstSeen(ms, v) ==
  CHOOSE k \in 1..Len(ms) : ms[k] = v /\ \A j \in 1..(k - 1) : ms[j] # v

\* The number of distinct values first seen at or before the first v.
Rank(ms, v) ==
  Cardinality({ FirstSeen(ms, w) : w \in SeqRange(ms) } \cap 1..FirstSeen(ms, v))

\* The map {d_k -> replacement_k} over the distinct values of ms.
FirstSeenMap(ms, replacement) ==
  [v \in SeqRange(ms) |-> replacement \o << "_" >> \o NatToString(Rank(ms, v))]

\* The result of the e-mail example: 3 matches, two tokens, the masked text.
EmailExample ==
  (Returned /\ text = EmailText /\ rules = << EmailRule >>) =>
    /\ result.sanitizedText = EmailSanitized
    /\ Len(result.appliedRules) = 1
    /\ result.appliedRules[1].matchCount = 3
    /\ result.appliedRules[1].replacementMap =
         (<< "a", "@", "x", ".", "c", "o", "m" >>
            :> << "[", "E", "M", "A", "I", "L", "]", "_", "1" >>)
         @@ (<< "b", "@", "y", ".", "c", "o", "m" >>
            :> << "[", "E", "M", "A", "I", "L", "]", "_", "2" >>)

\* C1: the replacementMap of every applied regex rule maps the k-th distinct
\* matched value, in first-seen order, to replacement + "_" + k, and the
\* e-mail example gives 3 matches, the two-entry map and the expected text.
C1_DistinctValueIndexing ==
  /\ \A k \in 1..Len(appliedRules) :
       appliedRules[k].rule.isRegex =>
         appliedRules[k].replacementMap =
           FirstSeenMap(appliedRules[k].matches, appliedRules[k].rule.replacement)
  /\ EmailExample

\* A regex rule was applied to three matches with two distinct values, the
\* first of which occurs twice.
C1_Witness ==
  \E k \in 1..Len(appliedRules) :
    /\ appliedRules[k].rule.isRegex
    /\ Len(appliedRules[k].matches) = 3
    /\ appliedRules[k].matches[1] = appliedRules[k].matches[3]
    /\ appliedRules[k].matches[1] # appliedRules[k].matches[2]

\* The text after the enabled rules rs[k..] have been applied in turn, each
\* to the text the one before it produced.
RECURSIVE ChainText(_, _, _)
ChainText(t, rs, k) ==
  IF k > Len(rs) THEN t
  ELSE LET r == applyRule(t, rs[k]) IN
       IF r.returns THEN ChainText(r.newText, rs, k + 1) ELSE << "?" >>

\* C2: the enabled rules are applied in list order, each to the text the
\* rules before it produced; literal foo -> [A] followed by literal
\* [A]_1 -> [B] turns foo into [B]_1.
C2_RulesCompoundInOrder ==
  Returned =>
    /\ result.sanitizedText = ChainText(text, EnabledOf(rules), 1)
    /\ (text = FooText /\ rules = FooRules) =>
         result.sanitizedText = << "[", "B", "]", "_", "1" >>

\* Two rules were applied and the second matched text that is not in the
\* original text: it matched the token the first rule inserted.
C2_Witness ==
  /\ Returned
  /\ Len(result.appliedRules) = 2
  /\ IndexOf(text, result.appliedRules[2].matches[1], 0) = -1
  /\ IndexOf(result.appliedRules[1].replacementMap[result.appliedRules[1].matches[1]],
             result.appliedRules[2].matches[1], 0) # -1

\* The tokens of the map that occur in s at offset i.
TokensAt(s, i, map) ==
  { v \in DOMAIN map : Substring(s, i, i + Len(map[v])) = map[v] }

\* s with every token of the map replaced by the value mapped to it.
RECURSIVE Restore(_, _, _)
Restore(s, i, map) ==
  IF i >= Len(s) THEN << >>
  ELSE IF TokensAt(s, i, map) # {}
    THEN LET v == CHOOSE v \in TokensAt(s, i, map) : TRUE IN
         v \o Restore(s, i + Len(map[v]), map)
  ELSE << s[i + 1] >> \o Restore(s, i + 1, map)

\* C3: for a single enabled rule that was applied, replacing every token of
\* the sanitized text by the value the replacementMap maps to it gives the
\* original text.
C3_RoundTrip ==
  (Returned /\ Len(rules) = 1 /\ Len(result.appliedRules) = 1) =>
    Restore(result.sanitizedText, 0, result.appliedRules[1].replacementMap) = text

\* The strings of tokens occur in s from offset i on, one after the other.
RECURSIVE OccurInOrder(_, _, _, _)
OccurInOrder(s, i, tokens, k) ==
  IF k > Len(tokens) THEN TRUE
  ELSE LET at == IndexOf(s, tokens[k], i) IN
       at # -1 /\ OccurInOrder(s, at + Len(tokens[k]), tokens, k + 1)

\* C4: after a single regex rule, the output holds, for every matched
\* occurrence in order, the token the replacementMap assigns to its value.
C4_EveryOccurrenceReplacedByItsToken ==
  (Returned /\ Len(rules) = 1 /\ Len(result.appliedRules) = 1 /\ rules[1].isRegex) =>
    OccurInOrder(result.sanitizedText, 0,
                 [k \in 1..Len(result.appliedRules[1].matches) |->
                    result.appliedRules[1].replacementMap[result.appliedRules[1].matches[k]]],
                 1)

\* C5: for a single enabled rule, the count of testPattern is the matchCount
\* of the rule's AppliedRule, and 0 when the rule has no AppliedRule.
C5_MatchCountParity ==
  (pc = "done" /\ Len(rules) = 1 /\ rules[1].enabled) =>
    tpResult.count = (IF result.appliedRules = << >> THEN 0
                      ELSE result.appliedRules[1].matchCount)

\* C6: every match of a literal rule equals the pattern character for
\* character, in sanitize and in testPattern, and the literal foo leaves
\* FOO Foo unchanged.
C6_LiteralCaseSensitive ==
  /\ \A k \in 1..Len(appliedRules) :
       ~appliedRules[k].rule.isRegex =>
         \A j \in 1..Len(appliedRules[k].matches) :
           appliedRules[k].matches[j] = appliedRules[k].rule.pattern
  /\ (pc = "done" /\ ~tpRule.isRegex) =>
       \A j \in 1..Len(tpResult.matches) : tpResult.matches[j] = tpRule.pattern
  /\ (Returned /\ text = FooUpperText /\ rules = FooLiteralRules) =>
       ~result.hasChanges /\ result.appliedRules = << >>

\* C7: a literal rule that matched has one distinct value, its pattern: the
\* replacementMap is the one-entry map {pattern -> replacement + "_1"}.
C7_LiteralOneDistinctValue ==
  \A k \in 1..Len(appliedRules) :
    ~appliedRules[k].rule.isRegex =>
      /\ DOMAIN appliedRules[k].replacementMap = {appliedRules[k].rule.pattern}
      /\ appliedRules[k].replacementMap[appliedRules[k].rule.pattern] =
           appliedRules[k].rule.replacement \o << "_", "1" >>

\* The rule is an enabled regex rule whose regex does not compile.
FailsToCompile(r) ==
  r.enabled /\ r.isRegex /\ ~NewRegExp(r.pattern, FlagsOrDefault(r.flags)).ok

\* C8: a rule list with enabled regex rules that fail to compile gives the
\* result of the list without them, and none of them has an AppliedRule.
C8_BadRegexIsSkipped ==
  Returned =>
    /\ LET r == sanitize(text, SelectSeq(rules, LAMBDA x : ~FailsToCompile(x))) IN
         r.returns /\ r.result = result
    /\ \A k \in 1..Len(result.appliedRules) : ~FailsToCompile(result.appliedRules[k].rule)

\* sanitize returned for a list in which an enabled regex rule that does not
\* compile comes before a rule that was then applied.
C8_Witness ==
  /\ Returned
  /\ Len(rules) = 2
  /\ FailsToCompile(rules[1])
  /\ Len(result.appliedRules) = 1
  /\ result.appliedRules[1].rule = rules[2]
  /\ result.hasChanges

\* The pattern of the rule compiles and matches the empty string.
CanMatchEmpty(r) ==
  /\ r.isRegex
  /\ LET re == NewRegExp(r.pattern, FlagsOrDefault(r.flags)) IN
       re.ok /\ Ends(re.ast, << >>, 0, re.ignoreCase) # << >>

\* C9: while a regex whose pattern can match the empty string is scanned, in
\* sanitize and in testPattern, the match list has at most length(text) + 1
\* entries.
C9_ZeroLengthScanBounded ==
  /\ (pc = "scan" /\ CanMatchEmpty(enabledRules[ruleIdx])) =>
       Len(matches) <= Len(sanitizedText) + 1
  /\ (pc = "tpScan" /\ CanMatchEmpty(tpRule)) =>
       Len(tpMatches) <= Len(text) + 1

\* C10: the sanitized text and the applied rules are those of the list with
\* the disabled rules removed, no disabled rule has an AppliedRule, and a
\* list of disabled rules only changes nothing.
C10_DisabledRulesNeverFire ==
  Returned =>
    /\ LET r == sanitize(text, SelectSeq(rules, LAMBDA x : x.enabled)) IN
         /\ r.returns
         /\ r.result.sanitizedText = result.sanitizedText
         /\ r.result.appliedRules = result.appliedRules
    /\ \A k \in 1..Len(result.appliedRules) : result.appliedRules[k].rule.enabled
    /\ (\A k \in 1..Len(rules) : ~rules[k].enabled) =>
         ~result.hasChanges /\ result.appliedRules = << >>

\* sanitize returned for a list with a disabled rule whose pattern occurs in
\* the text and an enabled rule that was applied.
C10_Witness ==
  /\ Returned
  /\ result.appliedRules # << >>
  /\ \E k \in 1..Len(rules) :
       /\ ~rules[k].enabled
       /\ ~rules[k].isRegex
       /\ IndexOf(text, rules[k].pattern, 0) # -1

\* The rules of rs[k..] that are enabled and match the text the rules before
\* them produced from t, in the order of rs.
RECURSIVE ExpectedApplied(_, _, _)
ExpectedAfter(t, rs, k, r) ==
  IF r.returns /\ Len(r.matches) > 0
  THEN << rs[k] >> \o ExpectedApplied(r.newText, rs, k + 1)
  ELSE ExpectedApplied(t, rs, k + 1)

ExpectedApplied(t, rs, k) ==
  IF k > Len(rs) THEN << >>
  ELSE IF rs[k].enabled THEN ExpectedAfter(t, rs, k, applyRule(t, rs[k]))
  ELSE ExpectedApplied(t, rs, k + 1)

\* C11: appliedRules holds, in the order of the input list and once each,
\* exactly the enabled rules that matched their working text, and every entry
\* has a non-empty matches list whose length is its matchCount.
C11_AppliedRulesAreTheMatchingRules ==
  Returned =>
    /\ [k \in 1..Len(result.appliedRules) |-> result.appliedRules[k].rule] =
         ExpectedApplied(text, rules, 1)
    /\ \A k \in 1..Len(result.appliedRules) :
         /\ result.appliedRules[k].matchCount > 0
         /\ result.appliedRules[k].matches # << >>
         /\ result.appliedRules[k].matchCount = Len(result.appliedRules[k].matches)

\* sanitize returned for two different enabled rules of which only the second
\* matched.
C11_Witness ==
  /\ Returned
  /\ Len(rules) = 2
  /\ rules[1].enabled /\ rules[2].enabled /\ rules[1] # rules[2]
  /\ Len(result.appliedRules) = 1
  /\ result.appliedRules[1].rule = rules[2]

\* C12: originalText is the text given to sanitize, and hasChanges is true
\* exactly when sanitizedText differs from originalText, whether or not
\* appliedRules is empty.
C12_HasChangesIffTextDiffers ==
  Returned =>
    /\ result.originalText = text
    /\ result.hasChanges <=> (result.sanitizedText # result.originalText)

\* A rule was applied and the text it produced is the original text.
C12_Witness ==
  /\ Returned
  /\ result.appliedRules # << >>
  /\ result.sanitizedText = text
  /\ ~result.hasChanges

\* s from offset i on, with every occurrence of the plain text v, found left
\* to right and compared character for character, replaced by token.
RECURSIVE ReplacePlain(_, _, _, _)
ReplacePlain(s, i, v, token) ==
  IF i >= Len(s) THEN << >>
  ELSE IF Substring(s, i, i + Len(v)) = v
    THEN token \o ReplacePlain(s, i + Len(v), v, token)
  ELSE << s[i + 1] >> \o ReplacePlain(s, i + 1, v, token)

RECURSIVE CountPlain(_, _, _)
CountPlain(s, i, v) ==
  IF i + Len(v) > Len(s) THEN 0
  ELSE IF Substring(s, i, i + Len(v)) = v THEN 1 + CountPlain(s, i + Len(v), v)
  ELSE CountPlain(s, i + 1, v)

\* The number of occurrences that the replace passes of a literal rule
\* replace, from the pass of values[k] on, newText being the text that pass
\* starts from.
RECURSIVE ReplacedCount(_, _, _, _)
ReplacedCount(values, k, replacement, newText) ==
  IF k > Len(values) THEN 0
  ELSE CountPlain(newText, 0, values[k])
       + ReplacedCount(values, k + 1, replacement,
           StringReplace(newText, NewRegExp(escapeRegExp(values[k]), << "g" >>),
                         IndexedReplacement(replacement, k - 1)))

\* C14: the literal scan goes on behind each hit (its cursor is at least the
\* number of hits times the pattern length), aa has 2 matches in aaaa and 1
\* in aaa, and a literal rule replaces as many occurrences as it reports
\* matches.
C14_LiteralScanWithoutOverlap ==
  /\ (pc = "scan" /\ ~enabledRules[ruleIdx].isRegex) =>
       scanIndex >= Len(matches) * Len(enabledRules[ruleIdx].pattern)
  /\ (Returned /\ text = FourAText /\ rules = DoubleARules) =>
       Len(result.appliedRules) = 1 /\ result.appliedRules[1].matchCount = 2
  /\ (Returned /\ text = ThreeAText /\ rules = DoubleARules) =>
       Len(result.appliedRules) = 1 /\ result.appliedRules[1].matchCount = 1
  /\ (Returned /\ Len(rules) = 1 /\ ~rules[1].isRegex /\ Len(result.appliedRules) = 1) =>
       ReplacedCount(DistinctValues(result.appliedRules[1].matches), 1,
                     rules[1].replacement, text)
         = result.appliedRules[1].matchCount

\* C16: sanitize with an empty rule list returns the text as originalText and
\* as sanitizedText, no applied rule and hasChanges = false.
C16_EmptyRuleListIsNoOp ==
  (Returned /\ rules = << >>) =>
    result = [originalText |-> text, sanitizedText |-> text,
              appliedRules |-> << >>, hasChanges |-> FALSE]

\* sanitize returned for a non-empty text and the empty rule list.
C16_Witness ==
  /\ pc = "returned"
  /\ rules = << >>
  /\ text # << >>
  /\ result # None

\* C17: no step of sanitize changes the rule list it was given: its length,
\* its order and every field of every rule stay as they were at the call.
C17_RulesAreNotMutated == [][rules' = rules]_vars

\* sanitize returned after it dropped a disabled rule from its own list of
\* enabled rules and applied the enabled one; the list given still has both.
C17_Witness ==
  /\ pc = "returned"
  /\ Len(rules) = 2
  /\ ~rules[1].enabled /\ rules[2].enabled
  /\ Len(enabledRules) = 1
  /\ Len(result.appliedRules) = 1

\* p[k..] is well formed for a regular expression over letters, parentheses
\* and stars: every ")" closes a "(", every "*" follows a letter or a ")",
\* and no "(" is left open.  depth is the number of open groups and
\* repeatable says that the text before p[k] ends with a term a "*" can follow.
RECURSIVE WellFormedFrom(_, _, _, _)
WellFormedFrom(p, k, depth, repeatable) ==
  IF k > Len(p) THEN depth = 0
  ELSE IF p[k] = "(" THEN WellFormedFrom(p, k + 1, depth + 1, FALSE)
  ELSE IF p[k] = ")" THEN depth > 0 /\ WellFormedFrom(p, k + 1, depth - 1, TRUE)
  ELSE IF p[k] = "*" THEN repeatable /\ WellFormedFrom(p, k + 1, depth, FALSE)
  ELSE WellFormedFrom(p, k + 1, depth, TRUE)

\* C15: validatePattern says of an empty pattern that it is invalid, with the
\* message "Pattern cannot be empty", for both isRegex values; of a non-empty
\* pattern with isRegex = true that it is valid exactly if it compiles with
\* no flags (is well formed), with the compiler's message if not, as for
\* (unclosed; and of every non-empty pattern with isRegex = false that it
\* is valid.
C15_ValidatePattern ==
  pc = "validated" =>
    /\ vpPattern = << >> =>
         vpResult = [valid |-> FALSE, error |-> "Pattern cannot be empty"]
    /\ (vpPattern # << >> /\ vpIsRegex) =>
         /\ vpResult.valid <=> NewRegExp(vpPattern, << >>).ok
         /\ SeqRange(vpPattern) \subseteq ValidateChars =>
              (vpResult.valid <=> WellFormedFrom(vpPattern, 1, 0, FALSE))
         /\ vpPattern = Unclosed => ~vpResult.valid
         /\ ~vpResult.valid => vpResult.error = SyntaxErrorMessage
    /\ (vpPattern # << >> /\ ~vpIsRegex) => vpResult = [valid |-> TRUE]

\* validatePattern returned for (unclosed as a regex: it is invalid.
C15_Witness ==
  /\ pc = "validated"
  /\ vpPattern = Unclosed
  /\ vpIsRegex
  /\ ~vpResult.valid

\* C18: when sanitizeWithRules has returned, the live list has the rules it
\* had at the call, each with the enabled flag it had then, whatever the
\* selection was.
C18_SelectivePreviewRestoresFlags ==
  (swrCall # None /\ swrCall.returned) => liveRules = swrCall.before

\* sanitizeWithRules returned from a call that had flipped the flag of a rule
\* and whose selection held a rule that is not in the live list.
C18_Witness ==
  /\ swrCall # None
  /\ swrCall.returned
  /\ swrCall.toggled # swrCall.before
  /\ \E id \in swrCall.selected : \A i \in 1..Len(liveRules) : liveRules[i].id # id

\* C19: no read of the live list outside sanitizeWithRules (updateBadge,
\* the storage-change callback, findMatchingRules in the click, submit and
\* keyboard handlers) happens while the flags are flipped.
C19_NoReadOfFlippedFlags ==
  lastRead # None => ~lastRead.flipped

\* updateBadge read the live list after a sanitizeWithRules call that had
\* flipped a flag and has restored it.
C19_Witness ==
  /\ lastRead # None
  /\ lastRead.by = "updateBadge"
  /\ lastRead.afterCall
  /\ swrCall # None
  /\ swrCall.returned
  /\ swrCall.toggled # swrCall.before
  /\ lastRead.enabled = EnabledIds(swrCall.before)

\* C20: the stored rules have pairwise distinct ids after every sequence of
\* addRule, updateRule, deleteRule, toggleRule, reorderRules, importRules
\* and resetRules on a store whose ids are distinct.
C20_StoredIdsAreUnique ==
  \A i, j \in 1..Len(stored) : stored[i].id = stored[j].id => i = j

\* A regex rule whose flags string is given and has no g.
LacksGlobal(r) ==
  /\ r.isRegex
  /\ r.pattern # << >>
  /\ r.flags # << >>
  /\ ~Includes(r.flags, "g")

\* C23: the scan of a regex rule whose flags are given without g ends with a
\* finite match list: while it runs, in sanitize and in testPattern, it has
\* pushed at most one match for each position of the text.
C23_ScanWithoutGlobalFlagEnds ==
  /\ (pc = "scan" /\ LacksGlobal(enabledRules[ruleIdx])) =>
       Len(matches) <= Len(sanitizedText) + 1
  /\ (pc = "tpScan" /\ LacksGlobal(tpRule)) =>
       Len(tpMatches) <= Len(text) + 1

\* The replace passes from the pass of values[k] on, newText being the text
\* that pass starts from: every pass that inserts its token leaves a token
\* that is in the final text.
RECURSIVE TokensIntact(_, _, _, _, _, _)
TokensIntactPass(values, k, replacement, valueFlags, newText, final, after) ==
  /\ after # newText => IndexOf(final, IndexedReplacement(replacement, k - 1), 0) # -1
  /\ TokensIntact(values, k + 1, replacement, valueFlags, after, final)

TokensIntact(values, k, replacement, valueFlags, newText, final) ==
  IF k > Len(values) THEN TRUE
  ELSE TokensIntactPass(values, k, replacement, valueFlags, newText, final,
         StringReplace(newText, NewRegExp(escapeRegExp(values[k]), valueFlags),
                       IndexedReplacement(replacement, k - 1)))

\* C24: in the output of one rule whose replacement is plain text, every
\* token that a replace pass inserted is still there as it was inserted.
C24_InsertedTokensStayIntact ==
  (/\ Returned
   /\ Len(rules) = 1
   /\ ~Includes(rules[1].replacement, "$")
   /\ Len(result.appliedRules) = 1) =>
    TokensIntact(DistinctValues(result.appliedRules[1].matches), 1,
                 rules[1].replacement, ValueFlagsOf(rules[1]), text,
                 result.sanitizedText)

\* The parts of str outside the spans that the scan of the global regex re
\* matches from lastIndex = index on, in order; prevEnd is the end of the
\* span before.
RECURSIVE OutsideFrom(_, _, _, _, _)
OutsideNext(str, re, prevEnd, acc, m) ==
  IF ~m.found THEN Append(acc, Substring(str, prevEnd, Len(str)))
  ELSE OutsideFrom(str, re, RegexStep(m).index, m.lastIndex,
         Append(acc, Substring(str, prevEnd, m.lastIndex - Len(m.match0))))

OutsideFrom(str, re, index, prevEnd, acc) ==
  OutsideNext(str, re, prevEnd, acc, RegExpExec(re, str, index))

\* out has the parts segs[k..] in order from offset pos on, the last of them
\* at its end.
RECURSIVE HasInOrder(_, _, _, _)
HasInOrderAt(out, segs, k, at) ==
  at # -1 /\ HasInOrder(out, segs, k + 1, at + Len(segs[k]))

HasInOrder(out, segs, k, pos) ==
  IF k = Len(segs)
  THEN /\ Len(out) - Len(segs[k]) >= pos
       /\ Substring(out, Len(out) - Len(segs[k]), Len(out)) = segs[k]
  ELSE HasInOrderAt(out, segs, k, IndexOf(out, segs[k], pos))

\* out is the first part of segs followed by the others in order.
KeepsOutside(out, segs) ==
  IF Len(segs) = 1 THEN out = segs[1]
  ELSE /\ Substring(out, 0, Len(segs[1])) = segs[1]
       /\ HasInOrder(out, segs, 2, Len(segs[1]))

\* C25: the output of one regex rule with the g flag has every part of the
\* text outside the matched spans, unchanged and in order.
C25_RegexChangesOnlyMatchedSpans ==
  (/\ Returned
   /\ Len(rules) = 1
   /\ rules[1].isRegex
   /\ Includes(FlagsOrDefault(rules[1].flags), "g")
   /\ Len(result.appliedRules) = 1) =>
    KeepsOutside(result.sanitizedText,
                 OutsideFrom(text, NewRegExp(rules[1].pattern, FlagsOrDefault(rules[1].flags)),
                             0, 0, << >>))

\* C21: a submit click on a text without matches is re-issued once and the
\* re-issued click is not intercepted: the listener is entered at most twice
\* for one click of the user.
C21_ReissuedClickGoesThrough ==
  /\ listenerEntries <= 2
  /\ (lastEvent = "reissuedClick" /\ lastSubmit # None) => ~lastSubmit.intercepted

\* C22: when a submit click or keydown of the user is handled,
\* isAutoSanitizing is false, and with autoSanitize enabled a submit of a
\* text that sanitize would change is intercepted.
C22_UserSubmitIsNeverTakenForTheProgrammaticOne ==
  (lastSubmit # None /\ lastSubmit.user) =>
    /\ ~lastSubmit.flag
    /\ (autoSanitize /\ lastSubmit.wouldChange) => lastSubmit.intercepted

C28_SessionOnlyWhileSanitizedTextShown ==
  /\ (lastEvent = "input" /\ replacementSession # None) =>
       inputText = replacementSession.sanitizedText
  /\ (lastEvent = "input" /\ before.session # None
        /\ inputText # before.session.sanitizedText) =>
       replacementSession = None

\* The user edited the sanitized text and the session was cleared.
C28_Witness ==
  /\ lastEvent = "input"
  /\ before.session # None
  /\ inputText # before.session.sanitizedText
  /\ replacementSession = None

\* C30: a getRules that follows deleteAllRules returns an empty list and
\* leaves the stored list empty.
C30_DeleteAllIsDurable ==
  [][(lastOp = "deleteAllRules" /\ lastOp' = "getRules") => stored' = << >>]_vars

\* C29: when both addRule calls have completed, the stored list has the
\* rules that were there before and the two new rules.
C29_ConcurrentAddsKeepBothRules ==
  (\A c \in AddCallers : addCalls.calls[c].step = "done") =>
    /\ \A c \in AddCallers : NewRule(c) \in SeqRange(stored)
    /\ SeqRange(addCalls.initial) \subseteq SeqRange(stored)

\* C26: the text showPreview resolves with on apply, no checkbox changed, is
\* the sanitizedText of sanitize(text, rules).
C26_PreviewAppliesWhatTheEngineDoes ==
  pc = "applied" => previewed.sanitizedText = result.sanitizedText

====
